---- MODULE Spec2Model ----
(***************************************************************************)
(* Text-to-SQL agent (whouseholder/tools, text-to-sql-agent).              *)
(*                                                                         *)
(* The module models                                                       *)
(*   - QueryGenerator._validate_syntax on SQL texts (TLA+ strings),        *)
(*   - LLMManager.generate_with_fallback and QueryGenerator.generate_query *)
(*     as one step machine (specification GenSpec),                        *)
(*   - MemoryManager.add_message on a bounded deque (MemSpec),             *)
(*   - TextToSQLAgent.process_question with its tools, run one request at  *)
(*     a time (Spec) or by several threads on one agent (ThreadSpec).      *)
(***************************************************************************)
EXTENDS Integers, Sequences, FiniteSets, TLC

\* Python None, for a string, a list and a number
None == "None"
NoneList == <<>>
NoConfidence == -1

(***************************************************************************)
(* Bounds of the model.                                                    *)
(***************************************************************************)
MaxR == 2
MaxValRetries == 3
MaxContextMessages == 2
MaxAdds == 5
MaxRequests == 2
MaxRowsAvailable == 4
MaxResultRows == 3
MaxFeedback == 3
MaxPairs == 3

\* the MemoryManager objects one agent creates
MaxSessions == 2

\* the restarts of the process holding the vector store
MaxRestarts == 2

\* the clock of the metadata cache runs from 0 to MaxTime; an entry lives CacheTtl
MaxTime == 4
CacheTtl == 2

\* the agents constructed in one process
MaxAgents == 3

\* the longest timeout, in seconds
MaxSeconds == 2

(***************************************************************************)
(* Python string helpers used by the code (str.startswith, str.endswith,   *)
(* str.count, `in`, str.strip, str.rstrip, str.upper).                     *)
(***************************************************************************)
StartsWith(s, p) == Len(s) >= Len(p) /\ SubSeq(s, 1, Len(p)) = p

EndsWith(s, p) == Len(s) >= Len(p) /\ SubSeq(s, Len(s) - Len(p) + 1, Len(s)) = p

Contains(s, p) == \E i \in 1..(Len(s) - Len(p) + 1) : SubSeq(s, i, i + Len(p) - 1) = p

RECURSIVE CountSub(_, _)
CountSub(s, p) ==
    IF Len(s) < Len(p) THEN 0
    ELSE IF SubSeq(s, 1, Len(p)) = p
         THEN 1 + CountSub(SubSeq(s, Len(p) + 1, Len(s)), p)
         ELSE CountSub(SubSeq(s, 2, Len(s)), p)

IsSpace(c) == c \in {" ", "\n", "\t"}

RECURSIVE LStrip(_)
LStrip(s) ==
    IF Len(s) > 0 /\ IsSpace(SubSeq(s, 1, 1)) THEN LStrip(SubSeq(s, 2, Len(s))) ELSE s

RECURSIVE RStrip(_)
RStrip(s) ==
    IF Len(s) > 0 /\ IsSpace(SubSeq(s, Len(s), Len(s)))
    THEN RStrip(SubSeq(s, 1, Len(s) - 1)) ELSE s

Strip(s) == LStrip(RStrip(s))

UpperChar(c) ==
    CASE c = "a" -> "A" [] c = "b" -> "B" [] c = "c" -> "C" [] c = "d" -> "D"
      [] c = "e" -> "E" [] c = "f" -> "F" [] c = "g" -> "G" [] c = "l" -> "L"
      [] c = "m" -> "M" [] c = "n" -> "N" [] c = "o" -> "O" [] c = "r" -> "R"
      [] c = "s" -> "S" [] c = "t" -> "T" [] c = "u" -> "U" [] c = "y" -> "Y"
      [] OTHER -> c

RECURSIVE Upper(_)
Upper(s) == IF Len(s) = 0 THEN "" ELSE UpperChar(SubSeq(s, 1, 1)) \o Upper(SubSeq(s, 2, Len(s)))

(***************************************************************************)
(* QueryGenerator._validate_syntax.  sqlparse is a non-validating parser:  *)
(* parse and format return normally on every non-empty text, so the        *)
(* "could not be parsed" / "Parse error" branches add no error here.       *)
(***************************************************************************)
valid_starts == <<"SELECT", "INSERT", "UPDATE", "DELETE", "WITH">>

incomplete_endings ==
    <<"SELECT", "FROM", "WHERE", "GROUP BY", "ORDER BY", "JOIN", "INNER JOIN",
      "LEFT JOIN", "RIGHT JOIN", "ON", "AND", "OR", "AS", ",">>

\* the first ending of the list that matches (the loop breaks at the first hit)
FirstEnding(query_upper) ==
    LET hits == {i \in 1..Len(incomplete_endings) :
                    EndsWith(RStrip(query_upper), incomplete_endings[i])}
    IN IF hits = {} THEN 0 ELSE CHOOSE i \in hits : \A j \in hits : i <= j

SyntaxErrors(query) ==
    LET query_stripped == Strip(query)
        query_upper == Upper(query_stripped)
        e1 == IF \E i \in 1..Len(valid_starts) : StartsWith(query_upper, valid_starts[i])
              THEN <<>>
              ELSE <<"Query must start with SELECT, INSERT, UPDATE, DELETE, or WITH">>
        e2 == IF StartsWith(query_upper, "SELECT") /\ ~Contains(query_upper, "FROM")
              THEN <<"SELECT query missing FROM clause">> ELSE <<>>
        e3 == IF StartsWith(query_upper, "SELECT") /\ FirstEnding(query_upper) # 0
              THEN <<"Query appears incomplete - ends with '"
                        \o incomplete_endings[FirstEnding(query_upper)] \o "'">>
              ELSE <<>>
        e4 == IF CountSub(query, "(") # CountSub(query, ")")
              THEN <<"Unbalanced parentheses">> ELSE <<>>
        e5 == IF (CountSub(query, "'") - CountSub(query, "\\'")) % 2 # 0
              THEN <<"Unclosed single quotes">> ELSE <<>>
        e6 == IF (CountSub(query, "\"") - CountSub(query, "\\\"")) % 2 # 0
              THEN <<"Unclosed double quotes">> ELSE <<>>
    IN IF Len(query_stripped) = 0 THEN <<"Query is empty">>
       ELSE e1 \o e2 \o e3 \o e4 \o e5 \o e6

\* returns (is_valid, errors); errors is None when the query is valid and a
\* non-empty list otherwise
_validate_syntax(query, syntax_check_enabled) ==
    IF ~syntax_check_enabled THEN [is_valid |-> TRUE, errors |-> NoneList]
    ELSE LET errors == SyntaxErrors(query)
         IN [is_valid |-> Len(errors) = 0,
             errors |-> IF Len(errors) = 0 THEN NoneList ELSE errors]

\* SQL texts a model may produce
SqlTexts ==
    { "SELECT name FROM customers",
      "select a from t",
      "SELECT name, total FROM sales GROUP BY",
      "SELECT name",
      "SELECT (a FROM t",
      "DROP TABLE t",
      "" }

(***************************************************************************)
(* State.                                                                  *)
(***************************************************************************)
VARIABLES
    \* QueryGenerator.generate_query / LLMManager.generate_with_fallback
    gq_pc,            \* position: idle, loop, small, large, extract, returned, raised
    gq_cfg,           \* max_validation_retries, max_retries_per_model, syntax_check_enabled
    gq_loc,           \* locals of generate_query: attempt, previous_query, validation_errors
    gq_prompts,       \* prompts handed to generate_with_fallback, in order
    fb_loc,           \* locals of generate_with_fallback: attempt, result
    provider_calls,   \* provider.generate calls of the current fallback run, in call order
    gq_result,        \* value returned by generate_query
    \* a MemoryManager used on its own
    mm_config,        \* MemoryConfig: max_context_messages, cache_enabled
    mm_messages,      \* self.messages, a deque(maxlen = max_context_messages)
    mm_cache_file,    \* contents of <cache_dir>/messages.json
    mm_added,         \* every message handed to add_message so far, in call order
    \* a TextToSQLAgent and its collaborators
    cfg,              \* the Config flags process_question reads
    sessions,         \* self._sessions: session id -> MemoryManager object (0: no entry)
    mem_heap,         \* the MemoryManager objects created so far: their messages
    next_uuid,        \* number of session ids drawn from uuid4 so far
    nreq,             \* number of process_question calls made so far
    pq,               \* per calling thread: position and locals of process_question
    qa_pairs,         \* vector store: self.qa_pairs
    qa_embeddings,    \* vector store: self.qa_embeddings
    vs_disk,          \* vector store: qa_pairs.json and qa_embeddings.npy
    feedback_db,      \* rows of the feedback table
    mem_log,          \* per session id, the latest add_message calls made for it, in order
    exec_log,         \* per thread, the execute_query calls of its current request
    \* collaborators called on their own
    cat,              \* MetadataManager: the latest get_relevant_tables call and its result
    qe,               \* QueryExecutor: its configuration, connection and latest call
    conf,             \* the latest _calculate_confidence call and its result
    auto,             \* the latest should_auto_store call and its result
    fb,               \* FeedbackManager calls: adds returned, latest id, latest statistics
    qdrant,           \* QdrantVectorStore: the process's hash and the collection's points
    found,            \* the vector store in use and its latest add and search
    ctx,              \* the latest get_context call and its result
    ext               \* further components called on their own, one field each

gen_vars == <<gq_pc, gq_cfg, gq_loc, gq_prompts, fb_loc, provider_calls, gq_result>>

mm_vars == <<mm_config, mm_messages, mm_cache_file, mm_added>>

agent_vars == <<cfg, sessions, mem_heap, next_uuid, nreq, pq, qa_pairs, qa_embeddings,
                vs_disk, feedback_db, mem_log, exec_log>>

lib_vars == <<cat, qe, conf, auto, fb, qdrant, found, ctx>>

vars == <<gen_vars, mm_vars, agent_vars, lib_vars, ext>>

(***************************************************************************)
(* Confidence values are kept as integers in units of 1/ConfScale.         *)
(***************************************************************************)
ConfScale == 3000
DefaultConfidence == 2400

Min(a, b) == IF a < b THEN a ELSE b
Max(a, b) == IF a > b THEN a ELSE b
Clamp01(c) == Max(0, Min(ConfScale, c))

(***************************************************************************)
(* Provider outcomes.  A provider call either raises (the provider         *)
(* re-raises every client error, a timeout included) or returns a text.    *)
(* A response text is the SQL part and the optional CONFIDENCE: value.     *)
(***************************************************************************)
ProviderErrors == {"timeout", "api error"}

ModelTexts ==
    { [sql |-> "SELECT name FROM customers;", confidence |-> 2850],
      [sql |-> "SELECT name, total FROM sales GROUP BY", confidence |-> NoConfidence],
      [sql |-> " ", confidence |-> 285000] }

RECURSIVE RStripSemicolons(_)
RStripSemicolons(s) ==
    IF Len(s) > 0 /\ SubSeq(s, Len(s), Len(s)) = ";"
    THEN RStripSemicolons(SubSeq(s, 1, Len(s) - 1)) ELSE s

\* QueryGenerator._extract_sql_and_confidence: the confidence defaults to 0.8
\* and is clamped to [0,1]; the SQL part is stripped, loses its trailing
\* semicolons and is stripped again.
_extract_sql_and_confidence(text) ==
    [query |-> Strip(RStripSemicolons(Strip(text.sql))),
     llm_confidence |-> IF text.confidence = NoConfidence THEN DefaultConfidence
                        ELSE Clamp01(text.confidence)]

\* Python truthiness of the two locals tested at the top of the retry loop
TruthyStr(v) == v # None /\ v # ""
TruthyList(v) == v # NoneList

NoText == [sql |-> None, confidence |-> NoConfidence]

NoFallbackResult == [text |-> NoText, model_used |-> None, attempts |-> <<>>]

NoResult ==
    [query |-> None, model_used |-> None, attempts |-> <<>>,
     validation_passed |-> FALSE, validation_errors |-> NoneList,
     llm_confidence |-> NoConfidence]

(***************************************************************************)
(* MemoryManager.                                                          *)
(***************************************************************************)
Roles == {"user", "assistant"}

\* a deque that refuses the new item at capacity instead of evicting the oldest
DequeAppend_DropNewest(d, x, maxlen) ==
    IF Len(d) >= maxlen THEN d ELSE Append(d, x)

\* collections.deque(maxlen = n).append(x): at capacity the leftmost item is
\* discarded; with maxlen 0 nothing is kept
DequeAppend(d, x, maxlen) ==
    IF maxlen = 0 THEN <<>>
    ELSE IF Len(d) >= maxlen THEN Append(Tail(d), x)
    ELSE Append(d, x)

ConversationMessage(role, content, metadata) ==
    [role |-> role, content |-> content, metadata |-> metadata]

\* MemoryManager.add_message on the messages of one manager
AddMessage(messages, role, content, metadata, max_context_messages) ==
    DequeAppend(messages, ConversationMessage(role, content, metadata),
                max_context_messages)

MemContents == {"Message 0", "Message 1"}

MemIdle ==
    /\ mm_config = [max_context_messages |-> 1, cache_enabled |-> FALSE]
    /\ mm_messages = <<>>
    /\ mm_cache_file = <<>>
    /\ mm_added = <<>>

\* MemoryManager(config, session_id) over an empty cache directory
MemStart ==
    /\ mm_config \in [max_context_messages : 1..MaxContextMessages,
                      cache_enabled : BOOLEAN]
    /\ mm_messages = <<>>
    /\ mm_cache_file = <<>>
    /\ mm_added = <<>>

\* add_message(role, content, metadata); _save_to_cache swallows I/O errors
add_message ==
    /\ Len(mm_added) < MaxAdds
    /\ \E role \in Roles, content \in MemContents :
          LET messages == AddMessage(mm_messages, role, content, None,
                                     mm_config.max_context_messages)
          IN /\ mm_messages' = messages
             /\ mm_added' = Append(mm_added, ConversationMessage(role, content, None))
             /\ IF mm_config.cache_enabled
                THEN \/ mm_cache_file' = messages
                     \/ mm_cache_file' = mm_cache_file
                ELSE mm_cache_file' = mm_cache_file
    /\ UNCHANGED <<mm_config, gen_vars, agent_vars, lib_vars, ext>>

(***************************************************************************)
(* generate_query: entry.                                                  *)
(***************************************************************************)
generate_query ==
    /\ gq_pc \in {"idle", "returned", "raised"}
    /\ \E mvr \in 1..MaxValRetries, R \in 0..MaxR, sce \in BOOLEAN :
          gq_cfg' = [max_validation_retries |-> mvr,
                     max_retries_per_model |-> R,
                     syntax_check_enabled |-> sce]
    /\ gq_loc' = [attempt |-> 0, previous_query |-> None, validation_errors |-> NoneList]
    /\ gq_prompts' = <<>>
    /\ fb_loc' = [attempt |-> 0, result |-> NoFallbackResult]
    /\ provider_calls' = <<>>
    /\ gq_result' = NoResult
    /\ gq_pc' = "loop"
    /\ ext' = [ext EXCEPT !.gq_exception = None]
    /\ UNCHANGED <<mm_vars, agent_vars, lib_vars>>

\* top of the retry loop: choose the prompt, enter generate_with_fallback
BuildPrompt ==
    /\ gq_pc = "loop"
    /\ LET correction == /\ gq_loc.attempt > 0
                         /\ TruthyStr(gq_loc.previous_query)
                         /\ TruthyList(gq_loc.validation_errors)
           generation_prompt ==
               IF correction
               THEN [kind |-> "correction",
                     previous_query |-> gq_loc.previous_query,
                     validation_errors |-> gq_loc.validation_errors]
               ELSE [kind |-> "initial", previous_query |-> None,
                     validation_errors |-> NoneList]
       IN gq_prompts' = Append(gq_prompts, generation_prompt)
    /\ fb_loc' = [attempt |-> 0,
                  result |-> NoFallbackResult]
    /\ provider_calls' = <<>>
    /\ gq_pc' = "small"
    /\ UNCHANGED <<gq_cfg, gq_loc, gq_result, mm_vars, agent_vars, lib_vars, ext>>

(***************************************************************************)
(* generate_with_fallback: one iteration of a tier's loop.                 *)
(***************************************************************************)
AttemptSuccess(tier, text) ==
    /\ fb_loc' = [fb_loc EXCEPT
                    !.result = [text |-> text,
                                model_used |-> tier,
                                attempts |-> Append(fb_loc.result.attempts,
                                    [model |-> tier, attempt |-> fb_loc.attempt + 1,
                                     success |-> TRUE, error |-> None])]]
    /\ gq_pc' = "extract"

\* a failed attempt that is counted but not written to the attempts log
AttemptFailure_Unlogged(tier, e) ==
    /\ fb_loc' = [fb_loc EXCEPT !.attempt = fb_loc.attempt + 1]
    /\ gq_pc' = gq_pc

AttemptFailure(tier, e) ==
    /\ fb_loc' = [fb_loc EXCEPT
                    !.attempt = fb_loc.attempt + 1,
                    !.result.attempts = Append(fb_loc.result.attempts,
                                    [model |-> tier, attempt |-> fb_loc.attempt + 1,
                                     success |-> FALSE, error |-> e])]
    /\ gq_pc' = gq_pc

SmallAttempt ==
    /\ gq_pc = "small"
    /\ fb_loc.attempt < gq_cfg.max_retries_per_model
    /\ provider_calls' = Append(provider_calls, "small")
    /\ \/ \E text \in ModelTexts : AttemptSuccess("small", text)
       \/ \E e \in ProviderErrors : AttemptFailure("small", e)
    /\ UNCHANGED <<gq_cfg, gq_loc, gq_prompts, gq_result, mm_vars, agent_vars, lib_vars, ext>>

\* falls back after the first small-tier failure instead of after R of them
FallBackToLarge_Early ==
    /\ gq_pc = "small"
    /\ fb_loc.attempt >= 1
    /\ fb_loc' = [fb_loc EXCEPT !.attempt = 0]
    /\ gq_pc' = "large"
    /\ UNCHANGED <<gq_cfg, gq_loc, gq_prompts, provider_calls, gq_result, mm_vars, agent_vars, lib_vars, ext>>

\* the small loop ran out: "Falling back to large model"
FallBackToLarge ==
    /\ gq_pc = "small"
    /\ fb_loc.attempt >= gq_cfg.max_retries_per_model
    /\ fb_loc' = [fb_loc EXCEPT !.attempt = 0]
    /\ gq_pc' = "large"
    /\ UNCHANGED <<gq_cfg, gq_loc, gq_prompts, provider_calls, gq_result, mm_vars, agent_vars, lib_vars, ext>>

LargeAttempt ==
    /\ gq_pc = "large"
    /\ fb_loc.attempt < gq_cfg.max_retries_per_model
    /\ provider_calls' = Append(provider_calls, "large")
    /\ \/ \E text \in ModelTexts : AttemptSuccess("large", text)
       \/ \E e \in ProviderErrors : AttemptFailure("large", e)
    /\ UNCHANGED <<gq_cfg, gq_loc, gq_prompts, gq_result, mm_vars, agent_vars, lib_vars, ext>>

\* generate_query's handler of an exception raised inside the loop body:
\* re-raise on the last attempt, otherwise continue with the next attempt
GqExcept ==
    IF gq_loc.attempt = gq_cfg.max_validation_retries - 1
    THEN /\ gq_pc' = "raised"
         /\ gq_loc' = gq_loc
    ELSE /\ gq_pc' = "loop"
         /\ gq_loc' = [gq_loc EXCEPT !.attempt = gq_loc.attempt + 1]

\* str(e) of the exception generate_with_fallback raises
AllAttemptsFailedMessage == "Failed to generate text after all retry attempts"

\* the large loop ran out: generate_with_fallback raises
\* "Failed to generate text after all retry attempts" into generate_query
AllAttemptsFailed ==
    /\ gq_pc = "large"
    /\ fb_loc.attempt >= gq_cfg.max_retries_per_model
    /\ GqExcept
    /\ gq_result' = NoResult
    /\ ext' = [ext EXCEPT !.gq_exception =
                  IF gq_pc' = "raised" THEN AllAttemptsFailedMessage ELSE None]
    /\ UNCHANGED <<gq_cfg, gq_prompts, fb_loc, provider_calls, mm_vars, agent_vars, lib_vars>>

(***************************************************************************)
(* generate_query: after generate_with_fallback returned a text.           *)
(***************************************************************************)
GqResult(query, llm_confidence, v) ==
    [query |-> query,
     model_used |-> fb_loc.result.model_used,
     attempts |-> fb_loc.result.attempts,
     validation_passed |-> v.is_valid,
     validation_errors |-> v.errors,
     llm_confidence |-> llm_confidence]

\* the retry loop without its last-attempt test: an invalid query always
\* leads to one more attempt
ExtractAndValidate_NoLastCheck ==
    /\ gq_pc = "extract"
    /\ LET x == _extract_sql_and_confidence(fb_loc.result.text)
           v == _validate_syntax(x.query, gq_cfg.syntax_check_enabled)
       IN IF v.is_valid
          THEN /\ gq_result' = GqResult(x.query, x.llm_confidence, v)
               /\ gq_loc' = [gq_loc EXCEPT !.validation_errors = v.errors]
               /\ gq_pc' = "returned"
          ELSE /\ gq_result' = NoResult
               /\ gq_loc' = [gq_loc EXCEPT !.validation_errors = v.errors,
                                           !.previous_query = x.query,
                                           !.attempt = gq_loc.attempt + 1]
               /\ gq_pc' = "loop"
    /\ UNCHANGED <<gq_cfg, gq_prompts, fb_loc, provider_calls, mm_vars, agent_vars, lib_vars, ext>>

ExtractAndValidate ==
    /\ gq_pc = "extract"
    /\ LET x == _extract_sql_and_confidence(fb_loc.result.text)
           v == _validate_syntax(x.query, gq_cfg.syntax_check_enabled)
       IN IF v.is_valid
          THEN /\ gq_result' = GqResult(x.query, x.llm_confidence, v)
               /\ gq_loc' = [gq_loc EXCEPT !.validation_errors = v.errors]
               /\ gq_pc' = "returned"
          ELSE IF gq_loc.attempt = gq_cfg.max_validation_retries - 1
          THEN /\ gq_result' = GqResult(x.query, x.llm_confidence, v)
               /\ gq_loc' = [gq_loc EXCEPT !.validation_errors = v.errors,
                                           !.previous_query = x.query]
               /\ gq_pc' = "returned"
          ELSE /\ gq_result' = NoResult
               /\ gq_loc' = [gq_loc EXCEPT !.validation_errors = v.errors,
                                           !.previous_query = x.query,
                                           !.attempt = gq_loc.attempt + 1]
               /\ gq_pc' = "loop"
    /\ UNCHANGED <<gq_cfg, gq_prompts, fb_loc, provider_calls, mm_vars, agent_vars, lib_vars, ext>>

GenIdle ==
    /\ gq_pc = "idle"
    /\ gq_cfg = [max_validation_retries |-> 1, max_retries_per_model |-> 0,
                 syntax_check_enabled |-> TRUE]
    /\ gq_loc = [attempt |-> 0, previous_query |-> None, validation_errors |-> NoneList]
    /\ gq_prompts = <<>>
    /\ fb_loc = [attempt |-> 0, result |-> NoFallbackResult]
    /\ provider_calls = <<>>
    /\ gq_result = NoResult

(***************************************************************************)
(* TextToSQLAgent: configuration, inputs and collaborators.                *)
(***************************************************************************)
Threads == {1, 2}

\* config.py defaults
similarity_threshold == 85
auto_store_threshold == 2700
min_question_length == 5
max_question_length == 500
feedback_enabled == TRUE
agent_syntax_check_enabled == TRUE
default_format == "table"

Questions == {"Hi", "top customers", "best customers"}

NoSession == -1
ClientSession == 0
SessionIds == {ClientSession} \cup (1..(MaxRequests + MaxSessions))

\* QuestionValidator._check_length
_check_length(question) ==
    LET length == Len(Strip(question))
    IN IF length < min_question_length THEN FALSE
       ELSE IF length > max_question_length THEN FALSE
       ELSE TRUE

\* the embedding model maps a text to its vector; equal texts have equal vectors
Embed(question) == <<"vec", question>>

\* cosine similarity of two embeddings, in percent
CosineSimilarity(u, v) ==
    IF u = v THEN 100
    ELSE IF {u[2], v[2]} = {"top customers", "best customers"} THEN 85
    ELSE 10

\* np.argsort(similarities)[::-1]: indices by descending similarity; the
\* reversal of the ascending order puts the later of two equal entries first
RECURSIVE ArgsortReversed(_, _)
ArgsortReversed(similarities, remaining) ==
    IF remaining = {} THEN <<>>
    ELSE LET best == CHOOSE i \in remaining : \A j \in remaining :
                        \/ similarities[i] > similarities[j]
                        \/ similarities[i] = similarities[j] /\ i >= j
         IN <<best>> \o ArgsortReversed(similarities, remaining \ {best})

Take(seq, k) == SubSeq(seq, 1, Min(k, Len(seq)))

\* a list comprehension [x for x in seq if x in kept]
FilterSeq(seq, kept) ==
    LET f[i \in 0..Len(seq)] ==
            IF i = 0 THEN <<>>
            ELSE IF seq[i] \in kept THEN Append(f[i - 1], seq[i]) ELSE f[i - 1]
    IN f[Len(seq)]

\* SimpleVectorStore.search_similar_questions
search_similar_questions(pairs, embeddings, question, top_k, threshold) ==
    IF pairs = <<>> THEN <<>>
    ELSE LET similarities == [i \in 1..Len(embeddings) |->
                                 CosineSimilarity(Embed(question), embeddings[i])]
             order == Take(ArgsortReversed(similarities, 1..Len(similarities)), top_k)
             hits == FilterSeq(order, {idx \in 1..Len(similarities) :
                                        similarities[idx] >= threshold})
         IN [n \in 1..Len(hits) |->
                [id |-> pairs[hits[n]].id,
                 question |-> pairs[hits[n]].question,
                 similarity |-> similarities[hits[n]],
                 metadata |-> [answer |-> pairs[hits[n]].answer,
                               sql_query |-> pairs[hits[n]].sql_query]]]

\* TextToSQLAgent._tool_check_similar_questions, given the store's answer
_tool_check_similar_questions(similar, threshold) ==
    LET similar_filtered == FilterSeq(similar, {similar[i] : i \in {j \in 1..Len(similar) :
                                            similar[j].similarity >= threshold}})
    IN [found |-> Len(similar_filtered) > 0, similar_questions |-> similar_filtered]

QAPair(id, question, answer, sql_query, confidence) ==
    [id |-> id, question |-> question, answer |-> answer, sql_query |-> sql_query,
     metadata |-> [confidence |-> confidence]]

\* SimpleVectorStore.add_qa_pair: the id is "qa_<number of pairs stored>"
AddQAPair(pairs, question, answer, sql_query, confidence) ==
    Append(pairs, QAPair(Len(pairs), question, answer, sql_query, confidence))

\* add_feedback as INSERT OR REPLACE keyed by the question
AddFeedback_Replace(rows, question, sql_query, feedback_type, feedback_source, confidence_score, session_id) ==
    LET row == [id |-> Len(rows) + 1, question |-> question, sql_query |-> sql_query,
                feedback_type |-> feedback_type, feedback_source |-> feedback_source,
                confidence_score |-> confidence_score, session_id |-> session_id]
    IN IF \E i \in 1..Len(rows) : rows[i].question = question
       THEN [i \in 1..Len(rows) |-> IF rows[i].question = question
                                     THEN [row EXCEPT !.id = rows[i].id] ELSE rows[i]]
       ELSE Append(rows, row)

\* FeedbackManager.add_feedback: one INSERT, id by AUTOINCREMENT
AddFeedback(rows, question, sql_query, feedback_type, feedback_source, confidence_score, session_id) ==
    Append(rows, [id |-> Len(rows) + 1, question |-> question, sql_query |-> sql_query,
                  feedback_type |-> feedback_type, feedback_source |-> feedback_source,
                  confidence_score |-> confidence_score, session_id |-> session_id])

\* should_auto_store with a strict comparison
should_auto_store_Strict(confidence_score) ==
    IF ~cfg.eval_mode THEN FALSE ELSE confidence_score > auto_store_threshold

\* FeedbackManager.should_auto_store
should_auto_store(confidence_score) ==
    IF ~cfg.eval_mode THEN FALSE ELSE confidence_score >= auto_store_threshold

\* _calculate_confidence without the override for a failed execution
_calculate_confidence_NoOverride(llm_confidence_in, execution_success, user_feedback) ==
    LET llm_confidence == IF llm_confidence_in = NoConfidence THEN DefaultConfidence
                          ELSE llm_confidence_in
    IN IF cfg.eval_mode /\ user_feedback = "positive"
            THEN Clamp01((2 * ConfScale + llm_confidence) \div 3)
       ELSE IF cfg.eval_mode /\ user_feedback = "negative"
            THEN Clamp01((llm_confidence * 3) \div 10)
       ELSE Clamp01(llm_confidence)

\* TextToSQLAgent._calculate_confidence
_calculate_confidence(llm_confidence_in, execution_success, user_feedback) ==
    LET llm_confidence == IF llm_confidence_in = NoConfidence THEN DefaultConfidence
                          ELSE llm_confidence_in
    IN IF ~execution_success THEN 0
       ELSE IF cfg.eval_mode /\ user_feedback = "positive"
            THEN Clamp01((2 * ConfScale + llm_confidence) \div 3)
       ELSE IF cfg.eval_mode /\ user_feedback = "negative"
            THEN Clamp01((llm_confidence * 3) \div 10)
       ELSE Clamp01(llm_confidence)

(***************************************************************************)
(* What the small model may answer to the combined validate-and-generate   *)
(* prompt and to the fix prompt: the provider raises, the text is not      *)
(* JSON, the JSON is not an object, or it is an object with these keys.    *)
(***************************************************************************)
BadConfidence == -2     \* a confidence that is not a number
Absent == "<absent>"    \* the key is missing
NonString == "<non-string>"

LlmJson(valid, reason, sql, confidence) ==
    [kind |-> "json", valid |-> valid, reason |-> reason, sql |-> sql,
     confidence |-> confidence]

LlmFailure(kind) ==
    [kind |-> kind, valid |-> FALSE, reason |-> Absent, sql |-> Absent,
     confidence |-> NoConfidence]

CombinedResponses ==
    { LlmFailure("raise"), LlmFailure("garbage"),
      LlmJson(FALSE, "no such data", Absent, NoConfidence),
      LlmJson(TRUE, Absent, "SELECT name FROM customers ", 2850),
      LlmJson(TRUE, Absent, "SELECT name, total FROM sales GROUP BY", 2850) }

FixResponses ==
    { LlmFailure("raise"), LlmFailure("garbage"),
      LlmJson(TRUE, Absent, "SELECT name, total FROM sales GROUP BY name", NoConfidence),
      LlmJson(TRUE, Absent, "SELECT name", NoConfidence) }

NoFix == LlmFailure("unused")

InternalError(e) == "Internal error during validation/generation: " \o e

CombinedInvalid(reason) ==
    [valid |-> FALSE, reason |-> reason, query |-> None,
     llm_confidence |-> NoConfidence, model_used |-> "small", attempts |-> 1,
     validation_passed |-> FALSE, validation_errors |-> NoneList]

NoCombined ==
    [valid |-> FALSE, reason |-> None, query |-> None,
     llm_confidence |-> NoConfidence, model_used |-> None, attempts |-> 0,
     validation_passed |-> FALSE, validation_errors |-> NoneList]

\* does the first answer lead to the fix prompt?
NeedsFix(response) ==
    /\ response.kind = "json"
    /\ response.valid
    /\ response.confidence # BadConfidence
    /\ ~_validate_syntax(Strip(IF response.sql = Absent THEN "" ELSE response.sql),
                         agent_syntax_check_enabled).is_valid

\* TextToSQLAgent._tool_validate_and_generate_sql, given the model's answer to
\* the combined prompt and, where the fix prompt is sent, its answer to that
_tool_validate_and_generate_sql(response, fixed_response) ==
    IF response.kind = "raise" THEN CombinedInvalid(InternalError("timeout"))
    ELSE IF response.kind = "garbage" THEN CombinedInvalid(InternalError("JSONDecodeError"))
    ELSE IF response.kind = "nondict" THEN CombinedInvalid(InternalError("AttributeError"))
    ELSE IF ~response.valid
    THEN CombinedInvalid(IF response.reason = Absent
                         THEN "Question not answerable with available data"
                         ELSE response.reason)
    ELSE IF response.confidence = BadConfidence
    THEN CombinedInvalid(InternalError("ValueError"))
    ELSE LET sql_query == Strip(IF response.sql = Absent THEN "" ELSE response.sql)
             confidence == IF response.confidence = NoConfidence THEN DefaultConfidence
                           ELSE response.confidence
             first == _validate_syntax(sql_query, agent_syntax_check_enabled)
             \* a fixed query replaces the first one only when the fix
             \* answer parses and its 'sql' (default: the first query) is a string
             replaced == /\ ~first.is_valid
                         /\ fixed_response.kind = "json"
                         /\ fixed_response.sql # NonString
             final_query == IF replaced /\ fixed_response.sql # Absent
                            THEN Strip(fixed_response.sql) ELSE sql_query
             final == IF replaced
                      THEN _validate_syntax(final_query, agent_syntax_check_enabled)
                      ELSE first
         IN IF ~first.is_valid /\ fixed_response.kind = "raise"
            THEN CombinedInvalid(InternalError("timeout"))
            ELSE [valid |-> TRUE, reason |-> None, query |-> final_query,
                  llm_confidence |-> confidence, model_used |-> "small",
                  attempts |-> 1, validation_passed |-> final.is_valid,
                  validation_errors |-> IF final.is_valid THEN <<>> ELSE final.errors]

\* number of llm_manager.generate calls the tool makes for these answers
LlmCallsMade(response) == IF NeedsFix(response) THEN 2 ELSE 1

(***************************************************************************)
(* The envelope process_question returns.                                  *)
(***************************************************************************)
TABLE == "table"
CHART == "chart"
ERROR == "error"
SIMILAR_QUESTION == "similar_question"
ResponseType == {TABLE, CHART, ERROR, SIMILAR_QUESTION}

NoData ==
    [type |-> None, error |-> None, sql_query |-> None, validation_errors |-> NoneList,
     similar_question |-> None, similarity |-> -1, answer |-> None, row_count |-> -1]

NoExecution == [success |-> FALSE, row_count |-> -1, error |-> None]

NoMetadata ==
    [keys |-> {}, similar_questions |-> -1, relevant_tables |-> <<>>,
     validation |-> [valid |-> FALSE, reason |-> None],
     query_generation |-> [model_used |-> None, attempts |-> 0, validation_passed |-> FALSE],
     sql_query |-> None, execution |-> NoExecution, confidence |-> NoConfidence]

\* result = {'session_id': ..., 'question': ..., 'success': False,
\*           'response_type': None, 'data': None, 'visualization': None, 'metadata': {}}
InitialResult(session_id, question) ==
    [session_id |-> session_id, question |-> question, success |-> FALSE,
     response_type |-> None, data |-> NoData, visualization |-> None,
     metadata |-> NoMetadata]

ErrorData(error, type) == [NoData EXCEPT !.error = error, !.type = type]

IdleCall ==
    [pc |-> "idle", req |-> 0, question |-> None, session_id |-> NoSession,
     visualization_type |-> None, skip_similar_check |-> FALSE, memory |-> 0,
     similar_qa |-> <<>>, combined_result |-> NoCombined, llm_calls |-> 0,
     execution_result |-> NoExecution, result |-> InitialResult(NoSession, None)]

LastN(seq, n) == SubSeq(seq, Max(1, Len(seq) - n + 1), Len(seq))

Running(t) == pq[t].pc \notin {"idle", "done", "raised", "aborted"}

\* memory.add_message(role, content, metadata) by the request of thread t
Remember(t, role, content, metadata) ==
    /\ mem_heap' = [mem_heap EXCEPT ![pq[t].memory] =
                       AddMessage(@, role, content, metadata, MaxContextMessages)]
    /\ mem_log' = [mem_log EXCEPT ![pq[t].session_id] =
                      LastN(Append(@, [req |-> pq[t].req,
                                       message |-> ConversationMessage(role, content,
                                                                       metadata)]),
                            MaxContextMessages)]

\* "return result" with the locals loc
Return(t, loc, result) ==
    pq' = [pq EXCEPT ![t] = [loc EXCEPT !.pc = "done", !.result = result]]

\* logger.error(message, exc_info=True): the logger, given a keyword
\* argument, builds the record's text as message.format(exc_info=True);
\* str.format raises on a brace that is neither doubled nor part of the
\* field {exc_info}
FormatRaises(message) ==
    LET n == Len(message)
        At(i, s) == i + Len(s) - 1 <= n /\ SubSeq(message, i, i + Len(s) - 1) = s
        scan[i \in 1..(n + 1)] ==
            IF i > n THEN FALSE
            ELSE IF At(i, "{{") \/ At(i, "}}") THEN scan[i + 2]
            ELSE IF At(i, "{exc_info}") THEN scan[i + Len("{exc_info}")]
            ELSE IF At(i, "{") \/ At(i, "}") THEN TRUE
            ELSE scan[i + 1]
    IN scan[1]

\* except Exception as e: (lines 980-988); an exception raised inside the
\* handler propagates to the caller of process_question
ExceptionHandler(t, loc, e) ==
    IF FormatRaises("Error processing question: " \o e)
    THEN /\ pq' = [pq EXCEPT ![t] = [loc EXCEPT !.pc = "raised"]]
         /\ UNCHANGED <<mem_heap, mem_log>>
    ELSE /\ Return(t, loc, [loc.result EXCEPT !.response_type = ERROR,
                                              !.data = ErrorData(e, "unexpected_error")])
         /\ Remember(t, "assistant", "Error: " \o e, None)

(***************************************************************************)
(* process_question, lines 772-777: create a session when none is given,   *)
(* then look the session's memory up.                                      *)
(***************************************************************************)
Input(question, session_id, visualization_type, skip_similar_check) ==
    [question |-> question, session_id |-> session_id,
     visualization_type |-> visualization_type,
     skip_similar_check |-> skip_similar_check]

ProcessQuestionInputs ==
    { Input("Hi", NoSession, None, FALSE),
      Input("top customers", ClientSession, None, FALSE),
      Input("top customers", ClientSession, "bar", TRUE),
      Input("best customers", ClientSession, None, FALSE) }

ThreadInputs == { Input("top customers", ClientSession, None, TRUE) }

process_question(t, in) ==
    /\ ~Running(t)
    /\ nreq < MaxRequests
    /\ LET created == in.session_id = NoSession
           session_id == IF created THEN next_uuid + 1 ELSE in.session_id
           heap == IF created THEN Append(mem_heap, <<>>) ELSE mem_heap
           sess == IF created THEN [sessions EXCEPT ![session_id] = Len(heap)]
                   ELSE sessions
           memory == sess[session_id]
       IN /\ mem_heap' = heap
          /\ sessions' = sess
          /\ next_uuid' = IF created THEN next_uuid + 1 ELSE next_uuid
          /\ nreq' = nreq + 1
          /\ pq' = [pq EXCEPT ![t] =
                      [IdleCall EXCEPT
                          !.pc = IF memory = 0 THEN "create_memory" ELSE "add_user",
                          !.req = nreq + 1,
                          !.question = in.question,
                          !.session_id = session_id,
                          !.visualization_type = in.visualization_type,
                          !.skip_similar_check = in.skip_similar_check,
                          !.memory = memory]]
    /\ exec_log' = [exec_log EXCEPT ![t] = <<>>]
    /\ UNCHANGED <<gen_vars, mm_vars, lib_vars, ext, cfg, qa_pairs, qa_embeddings, vs_disk, feedback_db, mem_log>>

\* lines 778-780: no memory for the session id: create one and register it
CreateMemory(t) ==
    /\ pq[t].pc = "create_memory"
    /\ mem_heap' = Append(mem_heap, <<>>)
    /\ sessions' = [sessions EXCEPT ![pq[t].session_id] = Len(mem_heap) + 1]
    /\ pq' = [pq EXCEPT ![t].memory = Len(mem_heap) + 1, ![t].pc = "add_user"]
    /\ UNCHANGED <<gen_vars, mm_vars, lib_vars, ext, cfg, next_uuid, nreq, qa_pairs, qa_embeddings, vs_disk, feedback_db,
                   mem_log, exec_log>>

\* lines 782-795: the user message, then the initial result
AddUserMessage(t) ==
    /\ pq[t].pc = "add_user"
    /\ Remember(t, "user", pq[t].question, None)
    /\ pq' = [pq EXCEPT ![t].pc = "similar",
                        ![t].result = InitialResult(pq[t].session_id, pq[t].question)]
    /\ UNCHANGED <<gen_vars, mm_vars, lib_vars, ext, cfg, sessions, next_uuid, nreq, qa_pairs, qa_embeddings, vs_disk,
                   feedback_db, exec_log>>

(***************************************************************************)
(* Steps 1-2, lines 798-827: conversation context, similar questions.      *)
(***************************************************************************)
\* str(e) of the exceptions a vector store search raises (the encoder's, or
\* a remote store's with the body of its response)
VectorStoreErrors ==
    {"vector store unreachable", "Unexpected Response: 400 {'status': 'error'}"}

SimilarOffer(best_match) ==
    [NoData EXCEPT !.type = "similar_offer",
                   !.similar_question = best_match.question,
                   !.similarity = best_match.similarity,
                   !.answer = best_match.metadata.answer,
                   !.sql_query = best_match.metadata.sql_query]

\* step 2 without the test of skip_similar_check
CheckSimilar_IgnoreSkip(t) ==
    /\ pq[t].pc = "similar"
    /\ IF cfg.check_similar_questions
       THEN \/ \E e \in VectorStoreErrors : ExceptionHandler(t, pq[t], e)
            \/ LET similar == search_similar_questions(qa_pairs, qa_embeddings,
                                  pq[t].question, 3, similarity_threshold)
                   similar_qa == _tool_check_similar_questions(
                                     similar, similarity_threshold).similar_questions
                   result == [pq[t].result EXCEPT
                                 !.metadata.keys = @ \cup {"similar_questions"},
                                 !.metadata.similar_questions = Len(similar_qa)]
                   loc == [pq[t] EXCEPT !.similar_qa = similar_qa, !.result = result]
               IN IF /\ similar_qa # <<>>
                     /\ cfg.prompt_on_similar
                     /\ similar_qa[1].similarity > similarity_threshold
                  THEN /\ Return(t, loc, [result EXCEPT
                                            !.response_type = SIMILAR_QUESTION,
                                            !.data = SimilarOffer(similar_qa[1])])
                       /\ UNCHANGED <<mem_heap, mem_log>>
                  ELSE /\ pq' = [pq EXCEPT ![t] = [loc EXCEPT !.pc = "tables"]]
                       /\ UNCHANGED <<mem_heap, mem_log>>
       ELSE /\ pq' = [pq EXCEPT ![t].pc = "tables"]
            /\ UNCHANGED <<mem_heap, mem_log>>
    /\ UNCHANGED <<gen_vars, mm_vars, lib_vars, ext, cfg, sessions, next_uuid, nreq, qa_pairs, qa_embeddings, vs_disk,
                   feedback_db, exec_log>>

CheckSimilar(t) ==
    /\ pq[t].pc = "similar"
    /\ IF cfg.check_similar_questions /\ ~pq[t].skip_similar_check
       THEN \/ \E e \in VectorStoreErrors : ExceptionHandler(t, pq[t], e)
            \/ LET similar == search_similar_questions(qa_pairs, qa_embeddings,
                                  pq[t].question, 3, similarity_threshold)
                   similar_qa == _tool_check_similar_questions(
                                     similar, similarity_threshold).similar_questions
                   result == [pq[t].result EXCEPT
                                 !.metadata.keys = @ \cup {"similar_questions"},
                                 !.metadata.similar_questions = Len(similar_qa)]
                   loc == [pq[t] EXCEPT !.similar_qa = similar_qa, !.result = result]
               IN IF /\ similar_qa # <<>>
                     /\ cfg.prompt_on_similar
                     /\ similar_qa[1].similarity > similarity_threshold
                  THEN /\ Return(t, loc, [result EXCEPT
                                            !.response_type = SIMILAR_QUESTION,
                                            !.data = SimilarOffer(similar_qa[1])])
                       /\ UNCHANGED <<mem_heap, mem_log>>
                  ELSE /\ pq' = [pq EXCEPT ![t] = [loc EXCEPT !.pc = "tables"]]
                       /\ UNCHANGED <<mem_heap, mem_log>>
       ELSE /\ pq' = [pq EXCEPT ![t].pc = "tables"]
            /\ UNCHANGED <<mem_heap, mem_log>>
    /\ UNCHANGED <<gen_vars, mm_vars, lib_vars, ext, cfg, sessions, next_uuid, nreq, qa_pairs, qa_embeddings, vs_disk,
                   feedback_db, exec_log>>

(***************************************************************************)
(* Step 3, lines 829-842: relevant tables.  get_relevant_tables returns a  *)
(* list on every path: no table (an empty catalog or a failed fetch) or    *)
(* tables.                                                                 *)
(***************************************************************************)
CatalogAnswers == {<<>>, <<"customers">>}

FetchTables(t) ==
    /\ pq[t].pc = "tables"
    /\ \E tables \in CatalogAnswers :
             LET relevant_tables == Take(tables, 5)
                 result == [pq[t].result EXCEPT
                               !.metadata.keys = @ \cup {"relevant_tables"},
                               !.metadata.relevant_tables = relevant_tables]
             IN IF relevant_tables = <<>>
                THEN /\ Return(t, pq[t], [result EXCEPT
                            !.response_type = ERROR,
                            !.data = ErrorData("No relevant tables found for this question",
                                               "metadata_error")])
                     /\ Remember(t, "assistant", "No relevant tables found", None)
                ELSE /\ pq' = [pq EXCEPT ![t].pc = "generate", ![t].result = result]
                     /\ UNCHANGED <<mem_heap, mem_log>>
    /\ UNCHANGED <<gen_vars, mm_vars, lib_vars, ext, cfg, sessions, next_uuid, nreq, qa_pairs, qa_embeddings, vs_disk,
                   feedback_db, exec_log>>

(***************************************************************************)
(* Step 4, lines 844-898: combined validation and SQL generation.          *)
(***************************************************************************)
\* step 4 without the validation_passed test of line 888
AfterGeneration_NoSyntaxGate(t, combined_result, llm_calls) ==
    LET loc == [pq[t] EXCEPT !.combined_result = combined_result,
                             !.llm_calls = llm_calls]
    IN IF ~combined_result.valid
       THEN /\ Return(t, loc, [pq[t].result EXCEPT
                   !.response_type = ERROR,
                   !.data = ErrorData(combined_result.reason, "validation_error"),
                   !.metadata.keys = @ \cup {"validation"},
                   !.metadata.validation = [valid |-> FALSE,
                                            reason |-> combined_result.reason]])
            /\ Remember(t, "assistant",
                        "Validation failed: " \o combined_result.reason, None)
       ELSE /\ pq' = [pq EXCEPT ![t] = [loc EXCEPT
                   !.pc = "execute",
                   !.result.metadata.keys = @ \cup {"validation", "query_generation",
                                                    "sql_query"},
                   !.result.metadata.validation = [valid |-> TRUE, reason |-> None],
                   !.result.metadata.query_generation =
                        [model_used |-> combined_result.model_used,
                         attempts |-> combined_result.attempts,
                         validation_passed |-> combined_result.validation_passed],
                   !.result.metadata.sql_query = combined_result.query]]
            /\ UNCHANGED <<mem_heap, mem_log>>

AfterGeneration(t, combined_result, llm_calls) ==
    LET loc == [pq[t] EXCEPT !.combined_result = combined_result,
                             !.llm_calls = llm_calls]
    IN IF ~combined_result.valid
       THEN /\ Return(t, loc, [pq[t].result EXCEPT
                   !.response_type = ERROR,
                   !.data = ErrorData(combined_result.reason, "validation_error"),
                   !.metadata.keys = @ \cup {"validation"},
                   !.metadata.validation = [valid |-> FALSE,
                                            reason |-> combined_result.reason]])
            /\ Remember(t, "assistant",
                        "Validation failed: " \o combined_result.reason, None)
       ELSE LET result == [pq[t].result EXCEPT
                   !.metadata.keys = @ \cup {"validation", "query_generation", "sql_query"},
                   !.metadata.validation = [valid |-> TRUE, reason |-> None],
                   !.metadata.query_generation =
                        [model_used |-> combined_result.model_used,
                         attempts |-> combined_result.attempts,
                         validation_passed |-> combined_result.validation_passed],
                   !.metadata.sql_query = combined_result.query]
            IN IF ~combined_result.validation_passed
               THEN /\ Return(t, loc, [result EXCEPT
                           !.response_type = ERROR,
                           !.data = [ErrorData("Generated query failed validation",
                                               "query_validation_error") EXCEPT
                                        !.validation_errors =
                                            combined_result.validation_errors,
                                        !.sql_query = combined_result.query]])
                    /\ Remember(t, "assistant", "Query generation failed validation", None)
               ELSE /\ pq' = [pq EXCEPT ![t] = [loc EXCEPT !.pc = "execute",
                                                           !.result = result]]
                    /\ UNCHANGED <<mem_heap, mem_log>>

ValidateAndGenerate(t) ==
    /\ pq[t].pc = "generate"
    /\ \E response \in CombinedResponses :
          \E fixed_response \in IF NeedsFix(response) THEN FixResponses ELSE {NoFix} :
              AfterGeneration(t, _tool_validate_and_generate_sql(response, fixed_response),
                              LlmCallsMade(response))
    /\ UNCHANGED <<gen_vars, mm_vars, lib_vars, ext, cfg, sessions, next_uuid, nreq, qa_pairs, qa_embeddings, vs_disk,
                   feedback_db, exec_log>>

(***************************************************************************)
(* Step 5, lines 900-931: execution.  execute_query returns a result on    *)
(* every path (it catches the backend's exceptions).                       *)
(***************************************************************************)
ExecutionResults ==
    { [success |-> TRUE, row_count |-> 1, error |-> None],
      [success |-> FALSE, row_count |-> 0, error |-> "no such table: sales"] }

RowsText(n) == IF n = 0 THEN "0" ELSE IF n = 1 THEN "1" ELSE "many"

ExecuteQuery(t) ==
    /\ pq[t].pc = "execute"
    /\ exec_log' = [exec_log EXCEPT ![t] =
                       Append(@, [query |-> pq[t].combined_result.query,
                                  validation_passed |->
                                      pq[t].combined_result.validation_passed])]
    /\ \E execution_result \in ExecutionResults :
          LET result == [pq[t].result EXCEPT
                            !.metadata.keys = @ \cup {"execution"},
                            !.metadata.execution = execution_result]
              loc == [pq[t] EXCEPT !.execution_result = execution_result]
          IN IF ~execution_result.success
             THEN /\ Return(t, loc, [result EXCEPT
                         !.response_type = ERROR,
                         !.data = [ErrorData(execution_result.error, "execution_error")
                                     EXCEPT !.sql_query = pq[t].combined_result.query]])
                  /\ Remember(t, "assistant",
                              "Query execution failed: " \o execution_result.error, None)
             ELSE /\ pq' = [pq EXCEPT ![t] = [loc EXCEPT !.pc = "visualize",
                                                         !.result = result]]
                  /\ UNCHANGED <<mem_heap, mem_log>>
    /\ UNCHANGED <<gen_vars, mm_vars, lib_vars, ext, cfg, sessions, next_uuid, nreq, qa_pairs, qa_embeddings, vs_disk,
                   feedback_db>>

(***************************************************************************)
(* Steps 6-7, lines 933-978: visualization, the assistant message, and in  *)
(* evaluation mode the confidence and the auto-store.                      *)
(***************************************************************************)
\* _tool_create_visualization: create_table yields a table; create_chart
\* yields a chart or falls back to a table; both may raise
VisualizationAnswers(visualization_type) ==
    IF visualization_type = "table" \/ visualization_type = None
    THEN {"table", "raise"}
    ELSE {"chart", "table", "raise"}

\* store_qa_pair: add_qa_pair (with its save to disk, whose errors are
\* swallowed) then add_feedback; an exception of either ends the method
StoreOutcomes == {"stored", "save failed", "vector store error", "feedback error"}

store_qa_pair(question, sql_query, answer, confidence, session_id, outcome) ==
    IF outcome = "vector store error"
    THEN UNCHANGED <<qa_pairs, qa_embeddings, vs_disk, feedback_db>>
    ELSE /\ qa_pairs' = AddQAPair(qa_pairs, question, answer, sql_query, confidence)
         /\ qa_embeddings' = Append(qa_embeddings, Embed(question))
         /\ vs_disk' = IF outcome = "save failed" THEN vs_disk
                       ELSE [qa_pairs |-> qa_pairs', qa_embeddings |-> qa_embeddings']
         /\ feedback_db' =
               IF outcome = "feedback error" THEN feedback_db
               ELSE AddFeedback(feedback_db, question, sql_query, "positive",
                                "eval_auto", confidence, session_id)

Success(t, kind) ==
    LET execution_result == pq[t].execution_result
        sql_query == pq[t].combined_result.query
        result == [pq[t].result EXCEPT
                      !.success = TRUE,
                      !.response_type = IF kind = "table" THEN TABLE ELSE CHART,
                      !.data = [NoData EXCEPT !.type = "execution_result",
                                              !.row_count = execution_result.row_count],
                      !.visualization = kind]
        confidence == _calculate_confidence(pq[t].combined_result.llm_confidence,
                                            execution_result.success, None)
    IN /\ Remember(t, "assistant",
                   "Query executed successfully: " \o RowsText(execution_result.row_count)
                       \o " rows returned",
                   sql_query)
       /\ IF feedback_enabled /\ cfg.eval_mode
          THEN /\ Return(t, pq[t], [result EXCEPT
                                      !.metadata.keys = @ \cup {"confidence"},
                                      !.metadata.confidence = confidence])
               /\ IF should_auto_store(confidence)
                  THEN \E outcome \in StoreOutcomes :
                          store_qa_pair(pq[t].question, sql_query,
                                        "rows: " \o RowsText(execution_result.row_count),
                                        confidence, pq[t].session_id, outcome)
                  ELSE UNCHANGED <<qa_pairs, qa_embeddings, vs_disk, feedback_db>>
          ELSE /\ Return(t, pq[t], result)
               /\ UNCHANGED <<qa_pairs, qa_embeddings, vs_disk, feedback_db>>

\* steps 6-7 with result['success'] = True moved before the visualization call
Visualize_SuccessFirst(t) ==
    /\ pq[t].pc = "visualize"
    /\ \E kind \in VisualizationAnswers(IF pq[t].visualization_type = None
                                        THEN default_format
                                        ELSE pq[t].visualization_type) :
          IF kind = "raise"
          THEN /\ ExceptionHandler(t, [pq[t] EXCEPT !.result.success = TRUE],
                                   "visualization failed")
               /\ UNCHANGED <<qa_pairs, qa_embeddings, vs_disk, feedback_db>>
          ELSE Success(t, kind)
    /\ UNCHANGED <<gen_vars, mm_vars, lib_vars, ext, cfg, sessions, next_uuid, nreq, exec_log>>

Visualize(t) ==
    /\ pq[t].pc = "visualize"
    /\ \E kind \in VisualizationAnswers(IF pq[t].visualization_type = None
                                        THEN default_format
                                        ELSE pq[t].visualization_type) :
          IF kind = "raise"
          THEN /\ ExceptionHandler(t, pq[t], "visualization failed")
               /\ UNCHANGED <<qa_pairs, qa_embeddings, vs_disk, feedback_db>>
          ELSE Success(t, kind)
    /\ UNCHANGED <<gen_vars, mm_vars, lib_vars, ext, cfg, sessions, next_uuid, nreq, exec_log>>

(***************************************************************************)
(* MetadataManager.get_relevant_tables and the tool that wraps it.         *)
(***************************************************************************)
Range(seq) == {seq[i] : i \in 1..Len(seq)}

\* the sequences that list each element of the set S once
Orderings(S) == {seq \in [1..Cardinality(S) -> S] : Range(seq) = S}

RECURSIVE Concat(_)
Concat(seqs) == IF seqs = <<>> THEN <<>> ELSE Head(seqs) \o Concat(Tail(seqs))

\* MetadataManager._fetch_metadata: every _get_<db>_metadata catches its
\* exceptions and returns []; the SQLite and Iceberg ones take no table name
_fetch_metadata(db_type, catalog, backend_ok, table_name) ==
    IF ~backend_ok THEN <<>>
    ELSE IF db_type \in {"sqlite", "iceberg"} THEN catalog
    ELSE IF table_name = None THEN catalog
    ELSE IF table_name \in Range(catalog) THEN <<table_name>>
    ELSE <<>>

\* self.vector_store.search(question, top_k=10): the stores of
\* vector_store.py define no method of that name (AttributeError); a store
\* that has one answers with hits, here the table names of their metadata
NoSearchMethod == [kind |-> "raise", hits |-> <<>>]

SearchHits(hits) == [kind |-> "results", hits |-> hits]

SearchAnswers ==
    { NoSearchMethod, SearchHits(<<>>), SearchHits(<<"customers">>),
      SearchHits(<<"plans", "customers", "plans">>) }

\* MetadataManager.get_relevant_tables; order is the order in which the set
\* table_names is iterated
get_relevant_tables(db_type, catalog, backend_ok, similar, order) ==
    IF db_type \in {"sqlite", "iceberg"}
    THEN _fetch_metadata(db_type, catalog, backend_ok, None)
    ELSE IF similar.kind = "raise"
    THEN _fetch_metadata(db_type, catalog, backend_ok, None)
    ELSE IF Range(similar.hits) # {}
    THEN Concat([i \in 1..Len(order) |->
                    _fetch_metadata(db_type, catalog, backend_ok, order[i])])
    ELSE _fetch_metadata(db_type, catalog, backend_ok, None)

\* TextToSQLAgent._tool_get_relevant_tables, given the manager's answer
_tool_get_relevant_tables(tables, max_tables) == [tables |-> Take(tables, max_tables)]

DbTypes == {"sqlite", "iceberg", "hive"}

Catalogs ==
    { <<>>, <<"customers">>, <<"customers", "plans">>,
      <<"customers", "plans", "devices">> }

CatIdle ==
    cat = [called |-> FALSE, db_type |-> "sqlite", catalog |-> <<>>,
           backend_ok |-> TRUE, similar |-> NoSearchMethod, max_tables |-> 5,
           result |-> <<>>, tables |-> <<>>]

GetRelevantTables ==
    /\ \E db_type \in DbTypes, catalog \in Catalogs, backend_ok \in BOOLEAN,
          similar \in SearchAnswers, max_tables \in {2, 5} :
          \E order \in Orderings(Range(similar.hits)) :
             LET result == get_relevant_tables(db_type, catalog, backend_ok, similar, order)
             IN cat' = [called |-> TRUE, db_type |-> db_type, catalog |-> catalog,
                        backend_ok |-> backend_ok, similar |-> similar,
                        max_tables |-> max_tables, result |-> result,
                        tables |-> _tool_get_relevant_tables(result, max_tables).tables]
    /\ UNCHANGED <<gen_vars, mm_vars, ext, agent_vars, qe, conf, auto, fb, qdrant, found, ctx>>

(***************************************************************************)
(* QueryExecutor.execute_query.                                            *)
(***************************************************************************)
\* what the database does with one query: the connection, the execute or
\* the fetch raises, or the query yields a number of rows
BackendFailure(stage, e) == [kind |-> stage, error |-> e, available |-> 0]

BackendRows(n) == [kind |-> "rows", error |-> None, available |-> n]

BackendOutcomes ==
    { BackendFailure("connect", "unable to open database file"),
      BackendFailure("execute", "no such table: sales"),
      BackendFailure("execute", "query timed out"),
      BackendFailure("fetch", "connection reset") }
    \cup {BackendRows(n) : n \in 0..MaxRowsAvailable}

\* cursor.fetchmany(size) on a result of n rows; the rows are numbered
fetchmany(n, size) == [i \in 1..Min(n, size) |-> i]

QueryFailed(e) ==
    [columns |-> <<>>, rows |-> <<>>, row_count |-> 0, success |-> FALSE, error |-> e]

\* execute_query with the fetch outside the try block
execute_query_FetchOutsideTry(db_type, connection, max_result_rows, outcome) ==
    IF outcome.kind = "fetch"
    THEN [raised |-> TRUE, result |-> QueryFailed(None), connection |-> connection]
    ELSE IF outcome.kind # "rows"
    THEN [raised |-> FALSE, result |-> QueryFailed(outcome.error),
          connection |-> connection]
    ELSE LET rows == fetchmany(outcome.available, max_result_rows)
         IN [raised |-> FALSE,
             result |-> [columns |-> <<"name">>, rows |-> rows, row_count |-> Len(rows),
                         success |-> TRUE, error |-> None],
             connection |-> connection \/ db_type # "sqlite"]

\* QueryExecutor.execute_query: its answer, and whether self._connection is
\* set afterwards (SQLite connects per query, the others keep a connection)
execute_query(db_type, connection, max_result_rows, outcome) ==
    IF outcome.kind = "connect"
    THEN [raised |-> FALSE, result |-> QueryFailed(outcome.error),
          connection |-> connection]
    ELSE IF outcome.kind \in {"execute", "fetch"}
    THEN [raised |-> FALSE, result |-> QueryFailed(outcome.error),
          connection |-> connection \/ db_type # "sqlite"]
    ELSE LET rows == fetchmany(outcome.available, max_result_rows)
         IN [raised |-> FALSE,
             result |-> [columns |-> <<"name">>, rows |-> rows, row_count |-> Len(rows),
                         success |-> TRUE, error |-> None],
             connection |-> connection \/ db_type # "sqlite"]

ExecutorIdle ==
    qe = [called |-> FALSE, db_type |-> "sqlite", max_result_rows |-> 1,
          connection |-> FALSE, query |-> None, outcome |-> BackendRows(0),
          raised |-> FALSE, result |-> QueryFailed(None)]

\* QueryExecutor(metadata_config, query_config)
ExecutorStart ==
    \E db_type \in {"sqlite", "hive"}, max_result_rows \in 1..MaxResultRows :
        qe = [called |-> FALSE, db_type |-> db_type, max_result_rows |-> max_result_rows,
              connection |-> FALSE, query |-> None, outcome |-> BackendRows(0),
              raised |-> FALSE, result |-> QueryFailed(None)]

ExecuteQueryCall ==
    /\ ~qe.raised
    /\ \E query \in {"SELECT name FROM customers", "SELECT name FROM sales"},
          outcome \in BackendOutcomes :
          \* a kept connection is reused: no connect takes place
          /\ (qe.connection /\ qe.db_type # "sqlite") => outcome.kind # "connect"
          /\ LET answer == execute_query(qe.db_type, qe.connection, qe.max_result_rows,
                                         outcome)
             IN qe' = [qe EXCEPT !.called = TRUE, !.query = query, !.outcome = outcome,
                                 !.raised = answer.raised, !.result = answer.result,
                                 !.connection = answer.connection]
    /\ UNCHANGED <<gen_vars, mm_vars, ext, agent_vars, cat, conf, auto, fb, qdrant, found, ctx>>

(***************************************************************************)
(* _calculate_confidence and should_auto_store called on their own.        *)
(***************************************************************************)
\* the model's self-reported confidence: absent, or a number (the combined
\* tool passes the JSON value on as it is, inside [0, 1] or not)
ConfidenceInputs == {NoConfidence, -300, 0, 900, 2400, 2700, 2850, 3000, 4500}

FeedbackInputs == {None, "positive", "negative", "neutral"}

ScoringIdle ==
    /\ conf = [called |-> FALSE, llm_confidence |-> NoConfidence,
               execution_success |-> FALSE, user_feedback |-> None, score |-> 0]
    /\ auto = [called |-> FALSE, confidence_score |-> 0, result |-> FALSE]

CalculateConfidence ==
    /\ \E c \in ConfidenceInputs, execution_success \in BOOLEAN,
          user_feedback \in FeedbackInputs :
          conf' = [called |-> TRUE, llm_confidence |-> c,
                   execution_success |-> execution_success,
                   user_feedback |-> user_feedback,
                   score |-> _calculate_confidence(c, execution_success, user_feedback)]
    /\ UNCHANGED <<gen_vars, mm_vars, ext, agent_vars, cat, qe, auto, fb, qdrant, found, ctx>>

ShouldAutoStore ==
    /\ \E c \in {0, 2400, 2699, 2700, 2850, 3000} :
          auto' = [called |-> TRUE, confidence_score |-> c,
                   result |-> should_auto_store(c)]
    /\ UNCHANGED <<gen_vars, mm_vars, ext, agent_vars, cat, qe, conf, fb, qdrant, found, ctx>>

(***************************************************************************)
(* FeedbackManager called on its own: add_feedback, get_feedback_stats.    *)
(***************************************************************************)
FeedbackTypes == {"positive", "negative", "neutral"}

FeedbackQuestions == {"Q1", "Q2"}

RECURSIVE SumCounts(_, _)
SumCounts(counts, keys) ==
    IF keys = {} THEN 0
    ELSE LET k == CHOOSE x \in keys : TRUE
         IN counts[k] + SumCounts(counts, keys \ {k})

\* FeedbackManager.get_feedback_stats: COUNT(*) per feedback_type (a dict
\* with a key for each type that has a row) and COUNT(*) of the table
get_feedback_stats(rows) ==
    LET present == {rows[i].feedback_type : i \in 1..Len(rows)}
    IN [total |-> Len(rows),
        by_type |-> [ty \in present |->
                        Cardinality({i \in 1..Len(rows) : rows[i].feedback_type = ty})]]

NoStats == [total |-> -1, by_type |-> [ty \in {} |-> 0]]

FeedbackIdle ==
    fb = [adds |-> 0, raised |-> FALSE, feedback_id |-> 0, stats |-> NoStats,
          stats_adds |-> -1]

\* add_feedback(...) returning the new row's id
AddFeedbackCall ==
    /\ Len(feedback_db) < MaxFeedback
    /\ \E question \in FeedbackQuestions, feedback_type \in FeedbackTypes :
          LET confidence_score == IF feedback_type = "positive" THEN 2850
                                  ELSE NoConfidence
              rows == AddFeedback(feedback_db, question, "S1", feedback_type,
                                  "user_manual", confidence_score, NoSession)
          IN /\ feedback_db' = rows
             /\ fb' = [fb EXCEPT !.adds = @ + 1, !.raised = FALSE,
                                 !.feedback_id = rows[Len(rows)].id]
    /\ UNCHANGED <<gen_vars, mm_vars, ext, cat, qe, conf, auto, qdrant, found, ctx>>
    /\ UNCHANGED <<cfg, sessions, mem_heap, next_uuid, nreq, pq, qa_pairs, qa_embeddings,
                   vs_disk, mem_log, exec_log>>

\* add_feedback(...) raising: the connection or the INSERT failed (database
\* locked, file not writable), nothing was committed
AddFeedbackRaises ==
    /\ ~fb.raised
    /\ fb' = [fb EXCEPT !.raised = TRUE]
    /\ UNCHANGED <<gen_vars, mm_vars, ext, agent_vars, cat, qe, conf, auto, qdrant, found, ctx>>

GetFeedbackStats ==
    /\ fb' = [fb EXCEPT !.stats = get_feedback_stats(feedback_db), !.stats_adds = fb.adds]
    /\ UNCHANGED <<gen_vars, mm_vars, ext, agent_vars, cat, qe, conf, auto, qdrant, found, ctx>>

(***************************************************************************)
(* A vector store called on its own: add_qa_pair and                       *)
(* search_similar_questions of the provider create_vector_store picked.    *)
(***************************************************************************)
Providers == {"simple", "qdrant"}

StoreQuestions == {"top customers", "best customers"}

StoreQueries == {"SELECT name FROM customers", "SELECT * FROM customers"}

\* the texts question + sql_query the Qdrant store hashes
HashedTexts ==
    << "top customers" \o "SELECT name FROM customers",
       "top customers" \o "SELECT * FROM customers",
       "best customers" \o "SELECT name FROM customers",
       "best customers" \o "SELECT * FROM customers" >>

\* str hashes are salted per process (PYTHONHASHSEED): a process in which the
\* four texts get four ids, and one in which two of them meet modulo 10 ** 10
HashSeeds == {0, 1}

\* abs(hash(text)) % (10 ** 10) in the process salted with seed
PyHash(seed, text) ==
    LET n == CHOOSE i \in 1..Len(HashedTexts) : HashedTexts[i] = text
    IN IF seed = 0 THEN n ELSE n % 3

\* QdrantClient.upsert of one point: a point with the same id is replaced
Upsert(points, point) ==
    IF \E i \in 1..Len(points) : points[i].id = point.id
    THEN [i \in 1..Len(points) |-> IF points[i].id = point.id THEN point ELSE points[i]]
    ELSE Append(points, point)

\* QdrantVectorStore.add_qa_pair: the new collection and the id returned
QdrantAddQAPair(seed, points, question, answer, sql_query, confidence) ==
    LET embedding == Embed(question)
        doc_id == PyHash(seed, question \o sql_query)
        payload == [confidence |-> confidence, question |-> question,
                    answer |-> answer, sql_query |-> sql_query]
    IN [points |-> Upsert(points, [id |-> doc_id, vector |-> embedding,
                                   payload |-> payload]),
        doc_id |-> doc_id]

\* the pairs the store in use holds, in the order they were first stored
SimilarityCache ==
    IF found.provider = "simple"
    THEN [i \in 1..Len(qa_pairs) |->
             [id |-> qa_pairs[i].id, question |-> qa_pairs[i].question,
              answer |-> qa_pairs[i].answer, sql_query |-> qa_pairs[i].sql_query,
              confidence |-> qa_pairs[i].metadata.confidence,
              embedding |-> IF i <= Len(qa_embeddings) THEN qa_embeddings[i] ELSE <<>>]]
    ELSE [i \in 1..Len(qdrant.points) |->
             [id |-> qdrant.points[i].id, question |-> qdrant.points[i].payload.question,
              answer |-> qdrant.points[i].payload.answer,
              sql_query |-> qdrant.points[i].payload.sql_query,
              confidence |-> qdrant.points[i].payload.confidence,
              embedding |-> qdrant.points[i].vector]]

StoreIdle ==
    /\ qdrant = [seed |-> 0, points |-> <<>>]
    /\ found = [provider |-> "simple", adds |-> 0, doc_id |-> -1, searched |-> FALSE,
                question |-> None, top_k |-> 0, threshold |-> 0, results |-> <<>>]

\* add_qa_pair(question, answer, sql_query, metadata) returning the id
AddQAPairCall ==
    /\ found.adds < MaxPairs
    /\ \E question \in StoreQuestions, sql_query \in StoreQueries :
          IF found.provider = "simple"
          THEN /\ qa_pairs' = AddQAPair(qa_pairs, question, "rows: 1", sql_query, 2850)
               /\ qa_embeddings' = Append(qa_embeddings, Embed(question))
               /\ \/ vs_disk' = [qa_pairs |-> qa_pairs', qa_embeddings |-> qa_embeddings']
                  \/ vs_disk' = vs_disk
               /\ found' = [found EXCEPT !.adds = @ + 1,
                                         !.doc_id = qa_pairs'[Len(qa_pairs')].id]
               /\ UNCHANGED qdrant
          ELSE LET added == QdrantAddQAPair(qdrant.seed, qdrant.points, question,
                                            "rows: 1", sql_query, 2850)
               IN /\ qdrant' = [qdrant EXCEPT !.points = added.points]
                  /\ found' = [found EXCEPT !.adds = @ + 1, !.doc_id = added.doc_id]
                  /\ UNCHANGED <<qa_pairs, qa_embeddings, vs_disk>>
    /\ UNCHANGED <<gen_vars, mm_vars, ext, cat, qe, conf, auto, fb, ctx>>
    /\ UNCHANGED <<cfg, sessions, mem_heap, next_uuid, nreq, pq, feedback_db, mem_log,
                   exec_log>>

\* search_similar_questions that also stores the question it was asked
SearchSimilarCall_Storing ==
    /\ found.provider = "simple"
    /\ \E question \in Questions, top_k \in {1, 2, 5}, threshold \in {similarity_threshold, 100} :
          found' = [found EXCEPT
                       !.searched = TRUE, !.question = question, !.top_k = top_k,
                       !.threshold = threshold,
                       !.results = search_similar_questions(qa_pairs, qa_embeddings,
                                                            question, top_k, threshold)]
    /\ qa_embeddings' = Append(qa_embeddings, Embed(found'.question))
    /\ UNCHANGED <<gen_vars, mm_vars, ext, cat, qe, conf, auto, fb, qdrant, ctx>>
    /\ UNCHANGED <<cfg, sessions, mem_heap, next_uuid, nreq, pq, qa_pairs, vs_disk,
                   feedback_db, mem_log, exec_log>>

\* SimpleVectorStore.search_similar_questions(question, top_k, threshold)
SearchSimilarCall ==
    /\ found.provider = "simple"
    /\ \E question \in Questions, top_k \in {1, 2, 5}, threshold \in {similarity_threshold, 100} :
          found' = [found EXCEPT
                       !.searched = TRUE, !.question = question, !.top_k = top_k,
                       !.threshold = threshold,
                       !.results = search_similar_questions(qa_pairs, qa_embeddings,
                                                            question, top_k, threshold)]
    /\ UNCHANGED <<gen_vars, mm_vars, ext, agent_vars, cat, qe, conf, auto, fb, qdrant, ctx>>

(***************************************************************************)
(* MemoryManager.get_context.                                              *)
(***************************************************************************)
\* MemoryConfig.max_context_tokens
max_context_tokens == 4000

\* max_tokens = None
NoTokens == -1

\* the key 'metadata' left out of the dict (include_metadata = False)
NoKey == "<no key>"

\* len(json.dumps(text)): the quotes, the characters, and one more for each
\* quote or backslash escaped
JsonStringLen(text) ==
    Len(text) + 2
        + Cardinality({i \in 1..Len(text) : SubSeq(text, i, i) \in {"\"", "\\"}})

\* len(json.dumps(msg_dict)) // 4 for {"role": ..., "content": ...} and for
\* the same dict with ', "metadata": {}'
EstimateTokens(message, include_metadata) ==
    LET plain == 9 + JsonStringLen(message.role) + 2 + 11 + JsonStringLen(message.content) + 1
    IN (IF include_metadata THEN plain + 14 + 2 ELSE plain) \div 4

MsgDict(message, include_metadata) ==
    [role |-> message.role, content |-> message.content,
     metadata |-> IF include_metadata THEN message.metadata ELSE NoKey]

\* get_context that passes over a message too long for what is left of the
\* budget and goes on with the older ones
get_context_SkipTooLong(messages, max_tokens_in, include_metadata) ==
    LET max_tokens == IF max_tokens_in = NoTokens THEN max_context_tokens ELSE max_tokens_in
        walk[i \in 0..Len(messages)] ==
            \* the context and the tokens counted once the i newest messages are visited
            IF i = 0 THEN [context |-> <<>>, total_tokens |-> 0]
            ELSE LET message == messages[Len(messages) - i + 1]
                     msg_tokens == EstimateTokens(message, include_metadata)
                     before == walk[i - 1]
                 IN IF before.total_tokens + msg_tokens > max_tokens
                    THEN before
                    ELSE [context |-> <<MsgDict(message, include_metadata)>> \o before.context,
                          total_tokens |-> before.total_tokens + msg_tokens]
    IN walk[Len(messages)].context

\* MemoryManager.get_context
get_context(messages, max_tokens_in, include_metadata) ==
    LET max_tokens == IF max_tokens_in = NoTokens THEN max_context_tokens ELSE max_tokens_in
        walk[i \in 0..Len(messages)] ==
            \* the context, the tokens counted and whether the loop broke once
            \* the i newest messages are visited
            IF i = 0 THEN [context |-> <<>>, total_tokens |-> 0, broke |-> FALSE]
            ELSE LET message == messages[Len(messages) - i + 1]
                     msg_tokens == EstimateTokens(message, include_metadata)
                     before == walk[i - 1]
                 IN IF before.broke THEN before
                    ELSE IF before.total_tokens + msg_tokens > max_tokens
                    THEN [before EXCEPT !.broke = TRUE]
                    ELSE [context |-> <<MsgDict(message, include_metadata)>> \o before.context,
                          total_tokens |-> before.total_tokens + msg_tokens,
                          broke |-> FALSE]
    IN walk[Len(messages)].context

ContextIdle ==
    ctx = [called |-> FALSE, at |-> 0, max_tokens |-> NoTokens,
           include_metadata |-> FALSE, context |-> <<>>]

\* get_context(max_tokens, include_metadata) after Len(mm_added) messages
GetContext ==
    /\ \E max_tokens \in {NoTokens, 0, 10, 21}, include_metadata \in BOOLEAN :
          ctx' = [called |-> TRUE, at |-> Len(mm_added), max_tokens |-> max_tokens,
                  include_metadata |-> include_metadata,
                  context |-> get_context(mm_messages, max_tokens, include_metadata)]
    /\ UNCHANGED <<gen_vars, mm_vars, ext, agent_vars, cat, qe, conf, auto, fb, qdrant, found>>

OtherLibIdle == CatIdle /\ ScoringIdle /\ FeedbackIdle /\ StoreIdle /\ ContextIdle

(***************************************************************************)
(* QueryExecutor.__init__ and MetadataManager.__init__: the database type. *)
(***************************************************************************)
LowerChar(c) ==
    CASE c = "H" -> "h" [] c = "I" -> "i" [] c = "V" -> "v" [] c = "E" -> "e"
      [] c = "S" -> "s" [] c = "Q" -> "q" [] c = "L" -> "l"
      [] OTHER -> c

RECURSIVE Lower(_)
Lower(s) == IF Len(s) = 0 THEN "" ELSE LowerChar(SubSeq(s, 1, 1)) \o Lower(SubSeq(s, 2, Len(s)))

\* the optional driver packages, each imported under try/except ImportError
DriverPackages ==
    {"pyhive", "impyla", "databricks-sql-connector", "snowflake-connector-python",
     "psycopg2", "pymysql", "requests"}

\* QueryExecutor.SUPPORTED_DATABASES: database type -> package it requires
ExecutorDatabases ==
    [sqlite |-> "sqlite3 (built-in)", hive |-> "pyhive", impala |-> "impyla",
     databricks |-> "databricks-sql-connector",
     snowflake |-> "snowflake-connector-python", postgres |-> "psycopg2",
     mysql |-> "pymysql"]

\* MetadataManager.SUPPORTED_DATABASES
ManagerDatabases ==
    [sqlite |-> "sqlite3 (built-in)", hive |-> "pyhive", impala |-> "impyla",
     databricks |-> "databricks-sql-connector",
     snowflake |-> "snowflake-connector-python", postgres |-> "psycopg2",
     mysql |-> "pymysql", iceberg |-> "requests"]

\* the 'available' flag of a supported database, given the packages installed
Available(supported, db_type, installed) ==
    db_type = "sqlite" \/ supported[db_type] \in installed

\* __init__ that keeps a supported database type whose package is missing
ResolveDbType_NoFallback(dialect, supported, installed) ==
    LET lowered == Lower(dialect)
        unknown == lowered \notin DOMAIN supported
        db_type == IF unknown THEN "sqlite" ELSE lowered
        unavailable == ~Available(supported, db_type, installed)
    IN [db_type |-> db_type,
        warnings |-> (IF unknown THEN <<"Unknown database type, defaulting to sqlite">> ELSE <<>>)
                     \o (IF unavailable THEN <<"support not available">> ELSE <<>>)]

\* the database type __init__ settles on and the warnings it logs
ResolveDbType(dialect, supported, installed) ==
    LET lowered == Lower(dialect)
        unknown == lowered \notin DOMAIN supported
        db_type == IF unknown THEN "sqlite" ELSE lowered
        unavailable == ~Available(supported, db_type, installed)
    IN [db_type |-> IF unavailable /\ db_type # "sqlite" THEN "sqlite" ELSE db_type,
        warnings |-> (IF unknown THEN <<"Unknown database type, defaulting to sqlite">> ELSE <<>>)
                     \o (IF unavailable THEN <<"support not available">> ELSE <<>>)
                     \o (IF unavailable /\ db_type # "sqlite"
                         THEN <<"Falling back to SQLite mode">> ELSE <<>>)]

Dialects == {"sqlite", "SQLite", "hive", "HIVE", "impala", "postgres", "iceberg", "oracle", ""}

NoCtor ==
    [called |-> FALSE, dialect |-> "", installed |-> {},
     executor |-> [db_type |-> None, warnings |-> <<>>],
     manager |-> [db_type |-> None, warnings |-> <<>>]]

\* QueryExecutor(metadata_config, query_config) and
\* MetadataManager(vector_store, metadata_config, query_config) in a process
\* with the given driver packages installed
Construct ==
    /\ \E dialect \in Dialects, installed \in SUBSET DriverPackages :
          ext' = [ext EXCEPT !.ctor =
                     [called |-> TRUE, dialect |-> dialect, installed |-> installed,
                      executor |-> ResolveDbType(dialect, ExecutorDatabases, installed),
                      manager |-> ResolveDbType(dialect, ManagerDatabases, installed)]]
    /\ UNCHANGED <<gen_vars, mm_vars, agent_vars, lib_vars>>

(***************************************************************************)
(* SimpleVectorStore.add_qa_pair called from several threads of one        *)
(* process: the statements of the method, one step each.                   *)
(***************************************************************************)
AdderIdle == [pc |-> "idle", question |-> None, sql_query |-> None, doc_id |-> -1]

NoAdders == [t \in Threads |-> AdderIdle]

Adder(t) == ext.adder[t]

\* the call: embedding = self.embedding_model.encode(question).tolist()
AddEncode(t) ==
    /\ Adder(t).pc = "idle"
    /\ Len(ext.added) + Cardinality({u \in Threads : Adder(u).pc # "idle"}) < MaxPairs
    /\ \E question \in StoreQuestions :
          ext' = [ext EXCEPT !.adder[t] =
                     [pc |-> "doc_id", question |-> question,
                      sql_query |-> "SELECT name FROM customers", doc_id |-> -1]]
    /\ UNCHANGED <<gen_vars, mm_vars, agent_vars, lib_vars>>

\* doc_id = f"qa_{len(self.qa_pairs)}"
AddDocId(t) ==
    /\ Adder(t).pc = "doc_id"
    /\ ext' = [ext EXCEPT !.adder[t].doc_id = Len(qa_pairs), !.adder[t].pc = "append pair"]
    /\ UNCHANGED <<gen_vars, mm_vars, agent_vars, lib_vars>>

\* self.qa_pairs.append(qa_data)
AddAppendPair(t) ==
    /\ Adder(t).pc = "append pair"
    /\ qa_pairs' = Append(qa_pairs, QAPair(Adder(t).doc_id, Adder(t).question, "rows: 1",
                                           Adder(t).sql_query, 2850))
    /\ ext' = [ext EXCEPT !.adder[t].pc = "append embedding"]
    /\ UNCHANGED <<gen_vars, mm_vars, lib_vars>>
    /\ UNCHANGED <<cfg, sessions, mem_heap, next_uuid, nreq, pq, qa_embeddings, vs_disk,
                   feedback_db, mem_log, exec_log>>

\* self.qa_embeddings.append(embedding)
AddAppendEmbedding(t) ==
    /\ Adder(t).pc = "append embedding"
    /\ qa_embeddings' = Append(qa_embeddings, Embed(Adder(t).question))
    /\ ext' = [ext EXCEPT !.adder[t].pc = "save pairs"]
    /\ UNCHANGED <<gen_vars, mm_vars, lib_vars>>
    /\ UNCHANGED <<cfg, sessions, mem_heap, next_uuid, nreq, pq, qa_pairs, vs_disk,
                   feedback_db, mem_log, exec_log>>

\* _save_to_disk: json.dump(self.qa_pairs, f)
AddSavePairs(t) ==
    /\ Adder(t).pc = "save pairs"
    /\ vs_disk' = [vs_disk EXCEPT !.qa_pairs = qa_pairs]
    /\ ext' = [ext EXCEPT !.adder[t].pc = "save embeddings"]
    /\ UNCHANGED <<gen_vars, mm_vars, lib_vars>>
    /\ UNCHANGED <<cfg, sessions, mem_heap, next_uuid, nreq, pq, qa_pairs, qa_embeddings,
                   feedback_db, mem_log, exec_log>>

\* _save_to_disk: np.save(..., np.array(self.qa_embeddings)); return doc_id
AddSaveEmbeddings(t) ==
    /\ Adder(t).pc = "save embeddings"
    /\ vs_disk' = [vs_disk EXCEPT !.qa_embeddings = qa_embeddings]
    /\ ext' = [ext EXCEPT !.adder[t] = AdderIdle,
                          !.added = Append(@, [doc_id |-> Adder(t).doc_id,
                                               question |-> Adder(t).question])]
    /\ UNCHANGED <<gen_vars, mm_vars, lib_vars>>
    /\ UNCHANGED <<cfg, sessions, mem_heap, next_uuid, nreq, pq, qa_pairs, qa_embeddings,
                   feedback_db, mem_log, exec_log>>

(***************************************************************************)
(* The time an external call takes: LLMProvider.generate through a client  *)
(* built with timeout=config.timeout, and QueryExecutor.execute_query with *)
(* its timeout parameter.                                                  *)
(***************************************************************************)
\* execute_query(query, timeout=None)
NoTimeout == -1

TimeoutArgs == {NoTimeout} \cup (1..MaxSeconds)

\* the seconds the remote side needs to answer
Durations == 0..(MaxSeconds + 1)

NoTimed ==
    [called |-> FALSE, call |-> None, timeout |-> 0, seconds |-> 0, elapsed |-> 0,
     error |-> None]

\* the client gives up after config.timeout seconds and raises
provider_generate_timed(timeout, seconds) ==
    IF seconds > timeout
    THEN [elapsed |-> timeout, error |-> "timeout"]
    ELSE [elapsed |-> seconds, error |-> None]

\* execute_query fills in its timeout and never hands it to the cursor:
\* execution_time is the time the database took
execute_query_timeout(timeout, max_execution_time) ==
    IF timeout = NoTimeout THEN max_execution_time ELSE timeout

ProviderGenerateTimed ==
    /\ \E timeout \in 1..MaxSeconds, seconds \in Durations :
          LET answer == provider_generate_timed(timeout, seconds)
          IN ext' = [ext EXCEPT !.timed = [called |-> TRUE, call |-> "model",
                                           timeout |-> timeout, seconds |-> seconds,
                                           elapsed |-> answer.elapsed,
                                           error |-> answer.error]]
    /\ UNCHANGED <<gen_vars, mm_vars, agent_vars, lib_vars>>

ExecuteQueryTimed ==
    /\ ~qe.raised
    /\ \E timeout \in TimeoutArgs, max_execution_time \in 1..MaxSeconds,
          seconds \in Durations, outcome \in BackendOutcomes :
          /\ (qe.connection /\ qe.db_type # "sqlite") => outcome.kind # "connect"
          /\ LET answer == execute_query(qe.db_type, qe.connection, qe.max_result_rows,
                                         outcome)
             IN /\ qe' = [qe EXCEPT !.called = TRUE, !.query = "SELECT name FROM customers",
                                    !.outcome = outcome,
                                    !.raised = answer.raised, !.result = answer.result,
                                    !.connection = answer.connection]
                /\ ext' = [ext EXCEPT !.timed =
                              [called |-> TRUE, call |-> "query",
                               timeout |-> execute_query_timeout(timeout,
                                                                 max_execution_time),
                               seconds |-> seconds, elapsed |-> seconds,
                               error |-> answer.result.error]]
    /\ UNCHANGED <<gen_vars, mm_vars, agent_vars, cat, conf, auto, fb, qdrant, found, ctx>>

(***************************************************************************)
(* QuestionValidator.validate with its relevance and answerability checks. *)
(***************************************************************************)
\* the text handed to json.loads: not JSON, a JSON value that is no object,
\* or an object with or without the verdict, the reason and the confidence
ResponseBodies ==
    {[kind |-> k, verdict |-> "absent", reason |-> None, confidence |-> NoConfidence] :
        k \in {"invalid", "array", "null"}}
    \cup [kind : {"object"}, verdict : {"absent", "true", "false"},
          reason : {None, "off topic"}, confidence : {NoConfidence, 2850}]

\* what llm_manager.generate does for one check: it raises, or it returns a
\* text without a code fence, with a ```json fence or with a plain fence;
\* closed tells whether the pattern for the fenced object finds a match
ModelResponses ==
    {[raised |-> e, fence |-> "none", closed |-> FALSE,
      body |-> [kind |-> "invalid", verdict |-> "absent", reason |-> None,
                confidence |-> NoConfidence]] : e \in {"timeout", "rate limit"}}
    \cup {r \in [raised : {None}, fence : {"none", "json", "plain"}, closed : BOOLEAN,
                 body : ResponseBodies] : r.fence = "none" => ~r.closed}

\* the exception raised between the model's answer and the verdict:
\* re.search(...).group on no match, json.loads on a text that is not JSON,
\* result.get on a value that is no dict
ParseError(response) ==
    IF response.fence # "none" /\ ~response.closed
    THEN "'NoneType' object has no attribute 'group'"
    ELSE IF response.body.kind = "invalid" THEN "Expecting value: line 1 column 1 (char 0)"
    ELSE IF response.body.kind = "array" THEN "'list' object has no attribute 'get'"
    ELSE IF response.body.kind = "null" THEN "'NoneType' object has no attribute 'get'"
    ELSE None

CheckError(response) ==
    IF response.raised # None THEN response.raised ELSE ParseError(response)

\* result.get('reason', 'Unknown')
ReasonOf(body) == IF body.reason = None THEN "Unknown" ELSE body.reason

\* result.get('confidence', 0.0)
ConfidenceOf(body) == IF body.confidence = NoConfidence THEN 0 ELSE body.confidence

NoCheck == [ran |-> FALSE, raised |-> FALSE, valid |-> FALSE, reason |-> None,
            score |-> NoConfidence]

Checked(valid, reason, score) ==
    [ran |-> TRUE, raised |-> FALSE, valid |-> valid, reason |-> reason, score |-> score]

\* _check_relevance_with_context without its try block
_check_relevance_with_context_NoCatch(response) ==
    IF CheckError(response) # None THEN [NoCheck EXCEPT !.ran = TRUE, !.raised = TRUE]
    ELSE IF response.body.verdict # "true"
    THEN Checked(FALSE, "Question not relevant to data queries: " \o ReasonOf(response.body),
                 ConfidenceOf(response.body))
    ELSE Checked(TRUE, None, ConfidenceOf(response.body))

\* QuestionValidator._check_relevance_with_context: (valid, reason, score)
_check_relevance_with_context(response) ==
    IF CheckError(response) # None THEN Checked(TRUE, None, ConfScale)
    ELSE IF response.body.verdict # "true"
    THEN Checked(FALSE, "Question not relevant to data queries: " \o ReasonOf(response.body),
                 ConfidenceOf(response.body))
    ELSE Checked(TRUE, None, ConfidenceOf(response.body))

\* QuestionValidator._check_answerability: (valid, reason)
_check_answerability(response) ==
    IF CheckError(response) # None THEN Checked(TRUE, None, NoConfidence)
    ELSE IF response.body.verdict = "false"
    THEN Checked(FALSE, "Question not answerable: " \o ReasonOf(response.body),
                 NoConfidence)
    ELSE Checked(TRUE, None, NoConfidence)

\* the second element of _check_length's answer
LengthReason(question) ==
    IF Len(Strip(question)) < min_question_length
    THEN "Question too short (minimum 5 characters)"
    ELSE IF Len(Strip(question)) > max_question_length
    THEN "Question too long (maximum 500 characters)"
    ELSE None

ValidateResults(raised, valid, reason, length, relevance, answerability) ==
    [raised |-> raised, valid |-> valid, reason |-> reason,
     checks |-> [length |-> length, relevance |-> relevance,
                 answerability |-> answerability]]

\* validate running every enabled check whatever the earlier ones found
validate_NoShortCircuit(question, config, relevance_response, answerability_response) ==
    LET length == Checked(_check_length(question), LengthReason(question), NoConfidence)
        relevance == IF config.check_relevance
                     THEN _check_relevance_with_context(relevance_response)
                     ELSE NoCheck
        answerability == IF config.check_answerability
                         THEN _check_answerability(answerability_response)
                         ELSE NoCheck
    IN IF answerability.ran /\ ~answerability.valid
       THEN ValidateResults(FALSE, FALSE, answerability.reason, length, relevance,
                            answerability)
       ELSE IF relevance.ran /\ ~relevance.valid
       THEN ValidateResults(FALSE, FALSE, relevance.reason, length, relevance,
                            answerability)
       ELSE ValidateResults(FALSE, length.valid, length.reason, length, relevance,
                            answerability)

\* QuestionValidator.validate: the results dict, or an exception of a check
validate(question, config, relevance_response, answerability_response) ==
    LET length == Checked(_check_length(question), LengthReason(question), NoConfidence)
        relevance == IF config.check_relevance
                     THEN _check_relevance_with_context(relevance_response)
                     ELSE NoCheck
        answerability == IF config.check_answerability
                         THEN _check_answerability(answerability_response)
                         ELSE NoCheck
    IN IF ~length.valid
       THEN ValidateResults(FALSE, FALSE, length.reason, length, NoCheck, NoCheck)
       ELSE IF relevance.raised
       THEN ValidateResults(TRUE, FALSE, None, length, relevance, NoCheck)
       ELSE IF relevance.ran /\ ~relevance.valid
       THEN ValidateResults(FALSE, FALSE, relevance.reason, length, relevance, NoCheck)
       ELSE IF answerability.raised
       THEN ValidateResults(TRUE, FALSE, None, length, relevance, answerability)
       ELSE IF answerability.ran /\ ~answerability.valid
       THEN ValidateResults(FALSE, FALSE, answerability.reason, length, relevance,
                            answerability)
       ELSE ValidateResults(FALSE, TRUE, None, length, relevance, answerability)

ValidationConfigs == [check_relevance : BOOLEAN, check_answerability : BOOLEAN]

NoValidate ==
    [called |-> FALSE, question |-> None,
     config |-> [check_relevance |-> TRUE, check_answerability |-> TRUE],
     relevance_response |-> CHOOSE r \in ModelResponses : r.raised = "timeout",
     answerability_response |-> CHOOSE r \in ModelResponses : r.raised = "timeout",
     results |-> ValidateResults(FALSE, FALSE, None, NoCheck, NoCheck, NoCheck)]

\* one call: the validator keeps nothing from one call to the next
ValidateCall ==
    /\ ~ext.val.called
    /\ \E question \in {"Hi", "top customers"}, config \in ValidationConfigs,
          relevance_response \in ModelResponses, answerability_response \in ModelResponses :
          ext' = [ext EXCEPT !.val =
                     [called |-> TRUE, question |-> question, config |-> config,
                      relevance_response |-> relevance_response,
                      answerability_response |-> answerability_response,
                      results |-> validate(question, config, relevance_response,
                                           answerability_response)]]
    /\ UNCHANGED <<gen_vars, mm_vars, agent_vars, lib_vars>>

(***************************************************************************)
(* _calculate_confidence(validation, query_result, execution_result,       *)
(* user_feedback) called with a query result of one tier or the other.     *)
(***************************************************************************)
\* query_result: 'model_used', the number of entries of 'attempts', and
\* 'llm_confidence' (NoConfidence: the key is missing)
QueryResults ==
    [model_used : {"small", "large"}, attempts : 1..2,
     llm_confidence : {NoConfidence, 2400, 2850, 3000}]

NoScore ==
    [called |-> FALSE,
     query_result |-> [model_used |-> None, attempts |-> 1, llm_confidence |-> NoConfidence],
     execution_success |-> FALSE, user_feedback |-> None, score |-> 0]

NoScores == [small |-> NoScore, large |-> NoScore]

\* the call reads query_result.get('llm_confidence', 0.8) and
\* execution_result['success'] and nothing else of its first three arguments
CalculateConfidenceOfTier ==
    /\ \E query_result \in QueryResults, execution_success \in BOOLEAN,
          user_feedback \in {None, "positive"} :
          LET call == [called |-> TRUE, query_result |-> query_result,
                       execution_success |-> execution_success,
                       user_feedback |-> user_feedback,
                       score |-> _calculate_confidence(query_result.llm_confidence,
                                                       execution_success, user_feedback)]
          IN ext' = [ext EXCEPT !.tier =
                        IF query_result.model_used = "small"
                        THEN [@ EXCEPT !.small = call]
                        ELSE [@ EXCEPT !.large = call]]
    /\ UNCHANGED <<gen_vars, mm_vars, agent_vars, lib_vars>>

(***************************************************************************)
(* A SimpleVectorStore across restarts of the process: add_qa_pair with    *)
(* its _save_to_disk, and __init__ with its _load_from_disk.               *)
(***************************************************************************)
\* how far _save_to_disk gets before an exception, which it logs and drops:
\* both files written, qa_pairs.json only, or none
SaveOutcomes == {"saved", "pairs only", "not saved"}

_save_to_disk(disk, pairs, embeddings, outcome) ==
    IF outcome = "saved" THEN [qa_pairs |-> pairs, qa_embeddings |-> embeddings]
    ELSE IF outcome = "pairs only" THEN [disk EXCEPT !.qa_pairs = pairs]
    ELSE disk

\* add_qa_pair on the store of the running process; the id it returns is
\* noted with the number of restarts so far
DurableAdd ==
    /\ Len(ext.issued) < MaxPairs
    /\ \E question \in StoreQuestions, outcome \in SaveOutcomes :
          /\ qa_pairs' = AddQAPair(qa_pairs, question, "rows: 1",
                                   "SELECT name FROM customers", 2850)
          /\ qa_embeddings' = Append(qa_embeddings, Embed(question))
          /\ vs_disk' = _save_to_disk(vs_disk, qa_pairs', qa_embeddings', outcome)
          /\ ext' = [ext EXCEPT !.issued = Append(@, [doc_id |-> Len(qa_pairs),
                                                      run |-> ext.run])]
    /\ UNCHANGED <<gen_vars, mm_vars, lib_vars>>
    /\ UNCHANGED <<cfg, sessions, mem_heap, next_uuid, nreq, pq, feedback_db, mem_log,
                   exec_log>>

\* the process ends and a new SimpleVectorStore(config) is constructed over
\* the same persist directory: _load_from_disk reads both files
RestartStore ==
    /\ ext.run < MaxRestarts
    /\ qa_pairs' = vs_disk.qa_pairs
    /\ qa_embeddings' = vs_disk.qa_embeddings
    /\ ext' = [ext EXCEPT !.run = @ + 1]
    /\ UNCHANGED <<gen_vars, mm_vars, lib_vars>>
    /\ UNCHANGED <<cfg, sessions, mem_heap, next_uuid, nreq, pq, vs_disk, feedback_db,
                   mem_log, exec_log>>

(***************************************************************************)
(* QueryGenerator._validate_syntax called on query texts of its own.       *)
(***************************************************************************)
\* query texts put together from a beginning, a FROM clause and an end
QueryHeads ==
    {"SELECT a", "select a", "SELECT (a", "DELETE", "DROP TABLE",
     "WITH c AS (SELECT 1 FROM d) SELECT a"}

QueryFroms == {"", " FROM t", " from sales", " FROM floor"}

QueryTails == {"", " ", ",", " WHERE", " WHERE b = 'a", " GROUP BY"}

QueryTexts ==
    {"", " "} \cup {h \o f \o t : h \in QueryHeads, f \in QueryFroms, t \in QueryTails}

NoSyntaxCall ==
    [called |-> FALSE, syntax_check_enabled |-> TRUE, query |-> "", is_valid |-> FALSE,
     errors |-> NoneList]

\* one call: the validator keeps nothing from one call to the next
ValidateSyntaxCall ==
    /\ ~ext.syn.called
    /\ \E query \in QueryTexts, syntax_check_enabled \in BOOLEAN :
          LET answer == _validate_syntax(query, syntax_check_enabled)
          IN ext' = [ext EXCEPT !.syn = [called |-> TRUE,
                                         syntax_check_enabled |-> syntax_check_enabled,
                                         query |-> query,
                                         is_valid |-> answer.is_valid,
                                         errors |-> answer.errors]]
    /\ UNCHANGED <<gen_vars, mm_vars, agent_vars, lib_vars>>

(***************************************************************************)
(* The connections and cursors of QueryExecutor.execute_query and close.   *)
(***************************************************************************)
\* the handles a call of execute_query acquired and did not close when it
\* returns: cursor.close() and, for SQLite, conn.close() are the last
\* statements of the try block, which has no finally clause
HandlesLeft(db_type, outcome) ==
    IF outcome.kind = "connect" THEN [connections |-> 0, cursors |-> 0]
    ELSE IF outcome.kind \in {"execute", "fetch"}
    THEN [connections |-> IF db_type = "sqlite" THEN 1 ELSE 0, cursors |-> 1]
    ELSE [connections |-> 0, cursors |-> 0]

NoHandles == [called |-> FALSE, connections |-> 0, cursors |-> 0]

ExecuteQueryHandles ==
    /\ ~qe.raised
    /\ \E outcome \in BackendOutcomes :
          /\ (qe.connection /\ qe.db_type # "sqlite") => outcome.kind # "connect"
          /\ LET answer == execute_query(qe.db_type, qe.connection, qe.max_result_rows,
                                         outcome)
                 left == HandlesLeft(qe.db_type, outcome)
             IN /\ qe' = [qe EXCEPT !.called = TRUE, !.query = "SELECT name FROM customers",
                                    !.outcome = outcome,
                                    !.raised = answer.raised, !.result = answer.result,
                                    !.connection = answer.connection]
                /\ ext' = [ext EXCEPT !.handles = [called |-> TRUE,
                                                   connections |-> left.connections,
                                                   cursors |-> left.cursors]]
    /\ UNCHANGED <<gen_vars, mm_vars, agent_vars, cat, conf, auto, fb, qdrant, found, ctx>>

\* QueryExecutor.close: the persistent connection, if any, is closed
CloseExecutor ==
    /\ qe.called
    /\ qe' = [qe EXCEPT !.connection = FALSE]
    /\ ext' = [ext EXCEPT !.handles = NoHandles]
    /\ UNCHANGED <<gen_vars, mm_vars, agent_vars, cat, conf, auto, fb, qdrant, found, ctx>>

(***************************************************************************)
(* MetadataManager.get_table_metadata with its cache, and                  *)
(* TextToSQLAgent.initialize_metadata_index(force_refresh).  Time is in    *)
(* units of cache_ttl / CacheTtl.                                          *)
(***************************************************************************)
\* no entry for the table in self._metadata_cache
NotCached == -1

NoRead == [called |-> FALSE, had_entry |-> FALSE, age |-> 0, forced |-> FALSE,
           from_cache |-> FALSE, fetched |-> FALSE, found |-> FALSE]

NoMetadataCache ==
    [now |-> 0, cached_at |-> NotCached, forced |-> FALSE, refresh_raised |-> FALSE,
     read |-> NoRead]

\* time.time() advances
Tick ==
    /\ ext.meta.now < MaxTime
    /\ ext' = [ext EXCEPT !.meta.now = @ + 1]
    /\ UNCHANGED <<gen_vars, mm_vars, agent_vars, lib_vars>>

\* get_table_metadata(table_name) for one table; the backend has the table
\* or has not (or fails, which _fetch_metadata reports as an empty list)
GetTableMetadata ==
    /\ \E present \in BOOLEAN :
          LET had_entry == ext.meta.cached_at # NotCached
              cache_age == ext.meta.now - ext.meta.cached_at
              from_cache == had_entry /\ cache_age < CacheTtl
              cached == ~from_cache /\ present
          IN ext' = [ext EXCEPT
                        !.meta.cached_at = IF cached THEN ext.meta.now ELSE @,
                        !.meta.forced = IF cached THEN FALSE ELSE @,
                        !.meta.read = [called |-> TRUE, had_entry |-> had_entry,
                                       age |-> IF had_entry THEN cache_age ELSE 0,
                                       forced |-> ext.meta.forced,
                                       from_cache |-> from_cache,
                                       fetched |-> ~from_cache,
                                       found |-> from_cache \/ present]]
    /\ UNCHANGED <<gen_vars, mm_vars, agent_vars, lib_vars>>

\* initialize_metadata_index(force_refresh=True): the agent calls
\* self.metadata_manager.index_all_tables, which MetadataManager does not
\* define: AttributeError, and the cache is as it was
InitializeMetadataIndex ==
    /\ ext' = [ext EXCEPT !.meta.forced = TRUE, !.meta.refresh_raised = TRUE]
    /\ UNCHANGED <<gen_vars, mm_vars, agent_vars, lib_vars>>

(***************************************************************************)
(* The tool registry ALL_TOOLS of agent/tools.py, a list of Tool objects   *)
(* of the module, and the agents of one process that bind and use it.      *)
(***************************************************************************)
ToolNames ==
    {"validate_question", "check_similar_questions", "get_relevant_tables",
     "get_table_descriptions", "generate_sql_query", "validate_sql_syntax",
     "execute_sql_query", "create_visualization", "submit_feedback", "add_to_memory"}

\* tool.function is None until an agent binds it
Unbound == 0

NoToolCall == [called |-> FALSE, agent |-> 0, tool_name |-> None, handler_of |-> Unbound,
               error |-> None]

NoRegistry ==
    [agents |-> 0, function |-> [name \in ToolNames |-> Unbound], call |-> NoToolCall]

\* TextToSQLAgent(config): _bind_tools sets tool.function, for every tool of
\* the registry, to the bound method of the agent under construction
ConstructAgent ==
    /\ ext.tools.agents < MaxAgents
    /\ ext' = [ext EXCEPT !.tools.agents = @ + 1,
                          !.tools.function = [name \in ToolNames |-> ext.tools.agents + 1]]
    /\ UNCHANGED <<gen_vars, mm_vars, agent_vars, lib_vars>>

\* agent.execute_tool(tool_name, parameters): the tool is looked up in the
\* registry and tool.function is called
ExecuteTool ==
    /\ \E agent \in 1..ext.tools.agents, tool_name \in ToolNames \cup {"no_such_tool"} :
          ext' = [ext EXCEPT !.tools.call =
                     IF tool_name \notin ToolNames
                     THEN [called |-> TRUE, agent |-> agent, tool_name |-> tool_name,
                           handler_of |-> Unbound,
                           error |-> "Tool not found: " \o tool_name]
                     ELSE [called |-> TRUE, agent |-> agent, tool_name |-> tool_name,
                           handler_of |-> ext.tools.function[tool_name],
                           error |-> None]]
    /\ UNCHANGED <<gen_vars, mm_vars, agent_vars, lib_vars>>

\*EXT
ExtBlank ==
    [ctor |-> NoCtor, gq_exception |-> None, adder |-> NoAdders, added |-> <<>>,
     timed |-> NoTimed, val |-> NoValidate,
     tier |-> NoScores, issued |-> <<>>, run |-> 0,
     syn |-> NoSyntaxCall, handles |-> NoHandles,
     meta |-> NoMetadataCache, tools |-> NoRegistry]

ExtIdle == ext = ExtBlank

LibOnlyIdle == ExecutorIdle /\ OtherLibIdle

LibIdle == LibOnlyIdle /\ ExtIdle

(***************************************************************************)
(* Initial states and specifications.                                      *)
(***************************************************************************)
StoredPair == QAPair(0, "top customers", "rows: 1", "SELECT name FROM customers", 2850)

Config(check_similar_questions, prompt_on_similar, eval_mode) ==
    [check_similar_questions |-> check_similar_questions,
     prompt_on_similar |-> prompt_on_similar, eval_mode |-> eval_mode]

\* the default configuration, and each of the three flags flipped
Configs == { Config(TRUE, TRUE, FALSE), Config(FALSE, TRUE, FALSE),
             Config(TRUE, FALSE, FALSE), Config(TRUE, TRUE, TRUE) }

\* no session, no request, empty stores
AgentBlank ==
    /\ sessions = [s \in SessionIds |-> 0]
    /\ mem_heap = <<>>
    /\ next_uuid = 0
    /\ nreq = 0
    /\ pq = [t \in Threads |-> IdleCall]
    /\ qa_pairs = <<>>
    /\ qa_embeddings = <<>>
    /\ vs_disk = [qa_pairs |-> <<>>, qa_embeddings |-> <<>>]
    /\ feedback_db = <<>>
    /\ mem_log = [s \in SessionIds |-> <<>>]
    /\ exec_log = [t \in Threads |-> <<>>]

AgentIdle == cfg = Config(TRUE, TRUE, FALSE) /\ AgentBlank

\* TextToSQLAgent(config): no session yet; the vector store is loaded from
\* its persist directory, which is empty or holds pairs of earlier runs
AgentInit ==
    /\ cfg \in Configs
    /\ sessions = [s \in SessionIds |-> 0]
    /\ mem_heap = <<>>
    /\ next_uuid = 0
    /\ nreq = 0
    /\ pq = [t \in Threads |-> IdleCall]
    /\ qa_pairs \in {<<>>, <<StoredPair>>}
    /\ qa_embeddings = [i \in 1..Len(qa_pairs) |-> Embed(qa_pairs[i].question)]
    /\ vs_disk = [qa_pairs |-> qa_pairs, qa_embeddings |-> qa_embeddings]
    /\ feedback_db = <<>>
    /\ mem_log = [s \in SessionIds |-> <<>>]
    /\ exec_log = [t \in Threads |-> <<>>]

\* one caller: a request is handed to process_question only after the
\* previous one returned
SerialCall ==
    /\ \A t \in Threads : ~Running(t)
    /\ \E in \in ProcessQuestionInputs : process_question(1, in)

\* callers on several threads of one process, sharing the session id
ThreadCall ==
    \E t \in Threads :
        /\ pq[t].pc = "idle"
        /\ \E in \in ThreadInputs : process_question(t, in)

AgentNext ==
    \/ SerialCall
    \/ \E t \in Threads : CreateMemory(t)
    \/ \E t \in Threads : AddUserMessage(t)
    \/ \E t \in Threads : CheckSimilar(t)
    \/ \E t \in Threads : FetchTables(t)
    \/ \E t \in Threads : ValidateAndGenerate(t)
    \/ \E t \in Threads : ExecuteQuery(t)
    \/ \E t \in Threads : Visualize(t)

ThreadNext ==
    \/ ThreadCall
    \/ \E t \in Threads : CreateMemory(t)
    \/ \E t \in Threads : AddUserMessage(t)
    \/ \E t \in Threads : CheckSimilar(t)
    \/ \E t \in Threads : FetchTables(t)
    \/ \E t \in Threads : ValidateAndGenerate(t)
    \/ \E t \in Threads : ExecuteQuery(t)
    \/ \E t \in Threads : Visualize(t)

Init == AgentInit /\ GenIdle /\ MemIdle /\ LibIdle

Next == AgentNext

Spec == Init /\ [][Next]_vars

\* TextToSQLAgent.get_session: self._sessions.get(session_id), 0 for None
get_session(session_id) == sessions[session_id]

\* TextToSQLAgent.create_session(session_id) called by a client between two
\* requests: a new MemoryManager is registered under the id, whether or not
\* the id has one
CreateSession ==
    /\ \A t \in Threads : ~Running(t)
    /\ Len(mem_heap) < MaxSessions
    /\ \E in_id \in {NoSession} \cup SessionIds :
          /\ in_id > ClientSession => in_id <= next_uuid
          /\ LET session_id == IF in_id = NoSession THEN next_uuid + 1 ELSE in_id
             IN /\ mem_heap' = Append(mem_heap, <<>>)
                /\ sessions' = [sessions EXCEPT ![session_id] = Len(mem_heap) + 1]
                /\ next_uuid' = IF in_id = NoSession THEN next_uuid + 1 ELSE next_uuid
    /\ UNCHANGED <<gen_vars, mm_vars, lib_vars, ext, cfg, nreq, pq, qa_pairs, qa_embeddings,
                   vs_disk, feedback_db, mem_log, exec_log>>

\* the steps of process_question that wait for an external call: the vector
\* store, the metastore, the model, the database
ExternalCallSteps == {"similar", "tables", "generate", "execute"}

\* the request is aborted while an external call is in flight: a
\* BaseException (KeyboardInterrupt, SystemExit) comes out of the call, passes
\* the handler "except Exception" and ends process_question
Abort(t) ==
    /\ pq[t].pc \in ExternalCallSteps
    /\ pq' = [pq EXCEPT ![t].pc = "aborted"]
    /\ UNCHANGED <<gen_vars, mm_vars, lib_vars, ext, cfg, sessions, mem_heap, next_uuid, nreq,
                   qa_pairs, qa_embeddings, vs_disk, feedback_db, mem_log, exec_log>>

AbortNext ==
    \/ Next
    \/ \E t \in Threads : Abort(t)

AbortSpec == Init /\ [][AbortNext]_vars

ThreadInit ==
    /\ Init
    /\ cfg = Config(TRUE, TRUE, FALSE)

ThreadSpec == ThreadInit /\ [][ThreadNext]_vars

GenInit == GenIdle /\ MemIdle /\ AgentIdle /\ LibIdle

GenNext ==
    \/ generate_query
    \/ BuildPrompt
    \/ SmallAttempt
    \/ FallBackToLarge
    \/ LargeAttempt
    \/ AllAttemptsFailed
    \/ ExtractAndValidate

GenSpec == GenInit /\ [][GenNext]_vars

MemInit == MemStart /\ GenIdle /\ AgentIdle /\ LibIdle

MemNext == add_message

MemSpec == MemInit /\ [][MemNext]_vars

CatInit == GenIdle /\ MemIdle /\ AgentIdle /\ LibIdle

CatNext == GetRelevantTables

CatSpec == CatInit /\ [][CatNext]_vars

ExecInit == GenIdle /\ MemIdle /\ AgentIdle /\ OtherLibIdle /\ ExtIdle /\ ExecutorStart

ExecNext == ExecuteQueryCall

ExecSpec == ExecInit /\ [][ExecNext]_vars

\* create_vector_store(config): an empty store of the configured provider
VsInit ==
    /\ GenIdle /\ MemIdle /\ AgentIdle
    /\ ExecutorIdle /\ CatIdle /\ ScoringIdle /\ FeedbackIdle /\ ContextIdle /\ ExtIdle
    /\ qdrant \in [seed : HashSeeds, points : {<<>>}]
    /\ found \in [provider : Providers, adds : {0}, doc_id : {-1}, searched : {FALSE},
                  question : {None}, top_k : {0}, threshold : {0}, results : {<<>>}]
    /\ found.provider = "simple" => qdrant.seed = 0

VsNext ==
    \/ AddQAPairCall
    \/ SearchSimilarCall

VsSpec == VsInit /\ [][VsNext]_vars

\* a MemoryManager without cache, keeping MaxContextMessages messages
CtxInit ==
    /\ MemStart /\ GenIdle /\ AgentIdle /\ LibIdle
    /\ mm_config = [max_context_messages |-> MaxContextMessages, cache_enabled |-> FALSE]

CtxNext ==
    \/ add_message
    \/ GetContext

CtxSpec == CtxInit /\ [][CtxNext]_vars

CtorInit == GenIdle /\ MemIdle /\ AgentIdle /\ LibIdle

CtorNext == Construct

CtorSpec == CtorInit /\ [][CtorNext]_vars

\* an empty SimpleVectorStore shared by the threads of one process
AddersInit == GenIdle /\ MemIdle /\ AgentIdle /\ LibIdle

AddersNext ==
    \/ \E t \in Threads : AddEncode(t)
    \/ \E t \in Threads : AddDocId(t)
    \/ \E t \in Threads : AddAppendPair(t)
    \/ \E t \in Threads : AddAppendEmbedding(t)
    \/ \E t \in Threads : AddSavePairs(t)
    \/ \E t \in Threads : AddSaveEmbeddings(t)

AddersSpec == AddersInit /\ [][AddersNext]_vars

\* a QueryExecutor and an LLM provider, each making calls of its own
TimeoutInit ==
    /\ GenIdle /\ MemIdle /\ AgentIdle /\ OtherLibIdle /\ ExtIdle
    /\ ExecutorStart

TimeoutNext ==
    \/ ProviderGenerateTimed
    \/ ExecuteQueryTimed

TimeoutSpec == TimeoutInit /\ [][TimeoutNext]_vars

SessionNext ==
    \/ Next
    \/ CreateSession

\* an agent with the default switches
SessionInit ==
    /\ Init
    /\ cfg = Config(TRUE, TRUE, FALSE)

SessionSpec == SessionInit /\ [][SessionNext]_vars

ValInit == GenIdle /\ MemIdle /\ AgentIdle /\ LibIdle

ValNext == ValidateCall

ValSpec == ValInit /\ [][ValNext]_vars

\* an agent in production mode or in eval mode
TierInit ==
    /\ GenIdle /\ MemIdle /\ AgentBlank /\ LibIdle
    /\ cfg \in {Config(TRUE, TRUE, FALSE), Config(TRUE, TRUE, TRUE)}

TierNext == CalculateConfidenceOfTier

TierSpec == TierInit /\ [][TierNext]_vars

\* an empty persist directory
DurableInit == GenIdle /\ MemIdle /\ AgentIdle /\ LibIdle

DurableNext ==
    \/ DurableAdd
    \/ RestartStore

DurableSpec == DurableInit /\ [][DurableNext]_vars

SyntaxInit == GenIdle /\ MemIdle /\ AgentIdle /\ LibIdle

SyntaxNext == ValidateSyntaxCall

SyntaxSpec == SyntaxInit /\ [][SyntaxNext]_vars

\* a QueryExecutor on the embedded or on a warehouse backend
HandlesInit ==
    /\ GenIdle /\ MemIdle /\ AgentIdle /\ OtherLibIdle /\ ExtIdle
    /\ ExecutorStart

HandlesNext ==
    \/ ExecuteQueryHandles
    \/ CloseExecutor

HandlesSpec == HandlesInit /\ [][HandlesNext]_vars

MetaInit == GenIdle /\ MemIdle /\ AgentIdle /\ LibIdle

MetaNext ==
    \/ Tick
    \/ GetTableMetadata
    \/ InitializeMetadataIndex

MetaSpec == MetaInit /\ [][MetaNext]_vars

ToolsInit == GenIdle /\ MemIdle /\ AgentIdle /\ LibIdle

ToolsNext ==
    \/ ConstructAgent
    \/ ExecuteTool

ToolsSpec == ToolsInit /\ [][ToolsNext]_vars

FbInit == GenIdle /\ MemIdle /\ AgentIdle /\ LibIdle

FbNext ==
    \/ AddFeedbackCall
    \/ AddFeedbackRaises
    \/ GetFeedbackStats

FbSpec == FbInit /\ [][FbNext]_vars

\* a FeedbackManager and an agent with evaluation mode off or on
ConfInit ==
    /\ GenIdle /\ MemIdle /\ AgentBlank /\ LibIdle
    /\ cfg \in {Config(TRUE, TRUE, FALSE), Config(TRUE, TRUE, TRUE)}

ConfNext ==
    \/ CalculateConfidence
    \/ ShouldAutoStore

ConfSpec == ConfInit /\ [][ConfNext]_vars

(***************************************************************************)
(* Properties.                                                             *)
(***************************************************************************)
LogTiers(attempts) == [i \in 1..Len(attempts) |-> attempts[i].model]

\* C2: in the attempts log of generate_with_fallback (and in the provider
\* calls it records) every small-tier attempt precedes every large-tier
\* attempt, and a large-tier attempt is preceded by exactly
\* R = max_retries_per_model small-tier attempts, all of them failures.
C2_FallbackOrdering ==
    LET attempts == fb_loc.result.attempts
        R == gq_cfg.max_retries_per_model
    IN /\ LogTiers(attempts) = provider_calls
       /\ \A i, j \in 1..Len(provider_calls) :
             (i < j /\ provider_calls[i] = "large") => provider_calls[j] = "large"
       /\ \A j \in 1..Len(attempts) :
             attempts[j].model = "large" =>
                /\ j > R
                /\ \A i \in 1..R : attempts[i].model = "small" /\ ~attempts[i].success
                /\ \A i \in (R + 1)..j : attempts[i].model = "large"

C2_Witness ==
    /\ gq_cfg.max_retries_per_model = 2
    /\ Len(provider_calls) = 4
    /\ provider_calls[2] = "small"
    /\ provider_calls[3] = "large"
    /\ fb_loc.result.model_used = "large"

CorrectionPrompts == {i \in 1..Len(gq_prompts) : gq_prompts[i].kind = "correction"}

\* C3: generate_query hands at most max_validation_retries prompts to the
\* model, hence at most that many correction prompts; a result without
\* validation_passed is returned only after the last permitted attempt and
\* carries a non-empty errors list; and whenever the model answered the last
\* attempt, generate_query returns (it raises only when every provider call
\* of its last attempt raised).
C3_RetryBound ==
    /\ Len(gq_prompts) <= gq_cfg.max_validation_retries
    /\ Cardinality(CorrectionPrompts) <= gq_cfg.max_validation_retries
    /\ (gq_pc = "returned" /\ ~gq_result.validation_passed) =>
          /\ Len(gq_prompts) = gq_cfg.max_validation_retries
          /\ gq_result.validation_errors # NoneList
          /\ Len(gq_result.validation_errors) > 0
    /\ gq_pc = "raised" =>
          /\ Len(gq_prompts) = gq_cfg.max_validation_retries
          /\ fb_loc.result.text = NoText

C3_Witness ==
    /\ gq_pc = "returned"
    /\ ~gq_result.validation_passed
    /\ gq_cfg.max_validation_retries = 3
    /\ Cardinality(CorrectionPrompts) = 2
    /\ Len(gq_result.validation_errors) > 0

\* C8: after N add_message calls the stored messages are the last
\* min(N, max_context_messages) messages added, in the order of the calls.
C8_MemoryBound ==
    LET n == Len(mm_added)
        k == Min(n, mm_config.max_context_messages)
    IN /\ Len(mm_messages) = k
       /\ mm_messages = SubSeq(mm_added, n - k + 1, n)

C8_Witness ==
    /\ mm_config.max_context_messages = 2
    /\ Len(mm_added) = 4
    /\ Len(mm_messages) = 2
    /\ mm_messages[1] = mm_added[3]
    /\ mm_messages[1] # mm_added[1]

(***************************************************************************)
(* process_question.                                                       *)
(***************************************************************************)
Returned(t) == pq[t].pc = "done"

\* C1: the executor is called only with a query whose latest syntax
\* validation passed, and a request whose generated query ends unvalidated
\* returns ERROR without success and without any execution call.
C1_ValidatedExecution ==
    \A t \in Threads :
        /\ \A i \in 1..Len(exec_log[t]) :
              /\ exec_log[t][i].validation_passed
              /\ _validate_syntax(exec_log[t][i].query,
                                  agent_syntax_check_enabled).is_valid
        /\ (/\ Returned(t)
            /\ pq[t].combined_result.valid
            /\ ~pq[t].combined_result.validation_passed) =>
              /\ pq[t].result.response_type = ERROR
              /\ ~pq[t].result.success
              /\ exec_log[t] = <<>>

\* a query executed after the fix prompt repaired it
C1_Witness ==
    \E t \in Threads :
        /\ Len(exec_log[t]) = 1
        /\ pq[t].llm_calls = 2
        /\ exec_log[t][1].query = "SELECT name, total FROM sales GROUP BY name"

\* C4: when process_question returns, the latest message added for the
\* session is an assistant message of that request, and it directly follows
\* the request's user message.
C4_AssistantAppended ==
    \A t \in Threads :
        Returned(t) =>
            LET log == mem_log[pq[t].session_id]
                n == Len(log)
            IN /\ n >= 1
               /\ log[n].req = pq[t].req
               /\ log[n].message.role = "assistant"
               /\ n >= 2 => /\ log[n - 1].req = pq[t].req
                            /\ log[n - 1].message.role = "user"

\* C5: every returned envelope names the request's session and question,
\* has data, and a response_type among TABLE, CHART, ERROR, SIMILAR_QUESTION;
\* success is true exactly when the response_type is TABLE or CHART.
C5_Envelope ==
    \A t \in Threads :
        Returned(t) =>
            /\ {"session_id", "question", "success", "response_type", "data",
                "metadata"} \subseteq DOMAIN pq[t].result
            /\ pq[t].result.session_id = pq[t].session_id
            /\ pq[t].result.question = pq[t].question
            /\ pq[t].result.response_type \in ResponseType
            /\ pq[t].result.data # NoData
            /\ pq[t].result.success <=> pq[t].result.response_type \in {TABLE, CHART}

C5_Witness ==
    \E t \in Threads :
        /\ Returned(t)
        /\ pq[t].result.response_type = CHART
        /\ pq[t].result.success
        /\ pq[t].visualization_type = "bar"

\* C6: with the similar-question check enabled (and the offer prompt on), a
\* request whose cache search returned a hit makes no generation call and no
\* execution call, and returns SIMILAR_QUESTION without success, carrying the
\* cached question, SQL and answer; TABLE and CHART never carry a cached answer.
C6_SimilarOffer ==
    \A t \in Threads :
        /\ (/\ cfg.check_similar_questions
            /\ cfg.prompt_on_similar
            /\ ~pq[t].skip_similar_check
            /\ pq[t].similar_qa # <<>>) =>
              /\ pq[t].llm_calls = 0
              /\ exec_log[t] = <<>>
              /\ Returned(t) =>
                    /\ pq[t].result.response_type = SIMILAR_QUESTION
                    /\ ~pq[t].result.success
                    /\ pq[t].result.data.similar_question = pq[t].similar_qa[1].question
                    /\ pq[t].result.data.sql_query =
                           pq[t].similar_qa[1].metadata.sql_query
                    /\ pq[t].result.data.answer = pq[t].similar_qa[1].metadata.answer
        /\ (Returned(t) /\ pq[t].result.response_type \in {TABLE, CHART}) =>
              pq[t].result.data.answer = None

\* C7: no failure of a collaborator makes process_question raise; a request
\* in which the provider or the execution backend failed returns an ERROR
\* envelope that carries the error.
C7_NoRaise ==
    \A t \in Threads :
        /\ pq[t].pc # "raised"
        /\ (Returned(t) /\ (\/ pq[t].execution_result.error # None
                            \/ pq[t].combined_result.reason = InternalError("timeout"))) =>
              /\ pq[t].result.response_type = ERROR
              /\ ~pq[t].result.success
              /\ pq[t].result.data.error # None

Writing(t) == pq[t].pc \in {"similar", "tables", "generate", "execute", "visualize"}

\* C9: per session, at most one request is between its first append and its
\* return; the session's memory holds exactly the latest messages appended
\* for the session, in append order; and an assistant message directly
\* follows a message of its own request.
C9_SingleWriter ==
    /\ \A t1, t2 \in Threads :
          (t1 # t2 /\ Writing(t1) /\ Writing(t2)) => pq[t1].session_id # pq[t2].session_id
    /\ \A s \in SessionIds :
          sessions[s] # 0 =>
             mem_heap[sessions[s]] = [i \in 1..Len(mem_log[s]) |-> mem_log[s][i].message]
    /\ \A s \in SessionIds :
          \A i \in 2..Len(mem_log[s]) :
             mem_log[s][i].message.role = "assistant" =>
                mem_log[s][i - 1].req = mem_log[s][i].req

\* C10: a request whose question fails the length check makes no generation
\* call and, unless a collaborator raised, returns ERROR without success and
\* with a 'validation' entry in the metadata.
C10_LengthRejected ==
    \A t \in Threads :
        (pq[t].pc # "idle" /\ ~_check_length(pq[t].question)) =>
            /\ pq[t].llm_calls = 0
            /\ (Returned(t) /\ pq[t].result.data.type # "unexpected_error") =>
                  /\ ~pq[t].result.success
                  /\ pq[t].result.response_type = ERROR
                  /\ "validation" \in pq[t].result.metadata.keys

\* C11: get_relevant_tables (and the tool around it) returns no table on an
\* empty catalog and at least one on a non-empty catalog; when the
\* similarity search fails or yields no match it returns the full table list.
C11_NeverEmpty ==
    cat.called =>
        /\ cat.catalog = <<>> => cat.result = <<>> /\ cat.tables = <<>>
        /\ cat.catalog # <<>> => cat.result # <<>> /\ cat.tables # <<>>
        /\ (cat.catalog # <<>> /\ Range(cat.similar.hits) = {}) => cat.result = cat.catalog

\* C12: execute_query raises nothing; a connection, execution or fetch
\* failure yields success=false with the error text, no rows and row_count 0;
\* a successful result has row_count equal to the number of rows returned,
\* which are the first rows of the result and at most max_result_rows.
C12_ExecuteNeverRaises ==
    qe.called =>
        /\ ~qe.raised
        /\ qe.outcome.kind # "rows" =>
              /\ ~qe.result.success
              /\ qe.result.error = qe.outcome.error
              /\ qe.result.rows = <<>>
              /\ qe.result.row_count = 0
        /\ qe.outcome.kind = "rows" =>
              /\ qe.result.success
              /\ qe.result.row_count = Len(qe.result.rows)
              /\ qe.result.row_count = Min(qe.outcome.available, qe.max_result_rows)
              /\ qe.result.row_count <= qe.max_result_rows
              /\ \A i \in 1..Len(qe.result.rows) : qe.result.rows[i] = i

C12_Witness ==
    /\ qe.called
    /\ qe.outcome.kind = "fetch"
    /\ ~qe.result.success
    /\ qe.result.error = "connection reset"
    /\ qe.db_type = "hive"

C14_AutoStoreRule ==
    auto.called =>
        (auto.result <=> (cfg.eval_mode /\ auto.confidence_score >= auto_store_threshold))

C14_Witness ==
    /\ auto.called
    /\ cfg.eval_mode
    /\ auto.confidence_score = auto_store_threshold
    /\ auto.result

\* C15: a successful request whose confidence passes should_auto_store
\* appends one QAPair and one FeedbackRecord for its question; the two
\* stores never gain only one of the two records.
C15_BothStores ==
    [][\A t \in Threads :
          (/\ pq[t].pc = "visualize"
           /\ pq'[t].pc = "done"
           /\ pq'[t].result.success
           /\ should_auto_store(pq'[t].result.metadata.confidence)) =>
              /\ Len(qa_pairs') = Len(qa_pairs) + 1
              /\ qa_pairs'[Len(qa_pairs')].question = pq[t].question
              /\ Len(feedback_db') = Len(feedback_db) + 1
              /\ feedback_db'[Len(feedback_db')].question = pq[t].question]_vars

\* C16: each add_feedback that returns creates exactly one new record under
\* an id no stored record has and leaves the stored records as they were; so
\* after n adds the store holds n records, and get_feedback_stats reports
\* total = n with per-type counts that sum to n.
C16_AppendOnly ==
    /\ [](/\ Len(feedback_db) = fb.adds
          /\ \A i, j \in 1..Len(feedback_db) :
                feedback_db[i].id = feedback_db[j].id => i = j
          /\ fb.stats_adds # -1 =>
                /\ fb.stats.total = fb.stats_adds
                /\ SumCounts(fb.stats.by_type, DOMAIN fb.stats.by_type) = fb.stats_adds)
    /\ [][/\ Len(feedback_db') >= Len(feedback_db)
          /\ SubSeq(feedback_db', 1, Len(feedback_db)) = feedback_db
          /\ fb'.adds = fb.adds + 1 =>
                /\ Len(feedback_db') = Len(feedback_db) + 1
                /\ fb'.feedback_id = feedback_db'[Len(feedback_db')].id
                /\ \A i \in 1..Len(feedback_db) : feedback_db[i].id # fb'.feedback_id]_vars

\* the same question added twice: two records, and the statistics count both
C16_Witness ==
    /\ Len(feedback_db) = 3
    /\ feedback_db[1].question = feedback_db[2].question
    /\ feedback_db[1].feedback_type = feedback_db[2].feedback_type
    /\ fb.stats_adds = 3
    /\ fb.stats.total = 3

\* C17: each add_qa_pair appends exactly one pair under an id no stored
\* pair has and leaves every stored pair (question, embedding, SQL, answer,
\* metadata) as it was, also when the same question is added again.
C17_AddAppends ==
    [][found'.adds = found.adds + 1 =>
          /\ Len(SimilarityCache') = Len(SimilarityCache) + 1
          /\ SubSeq(SimilarityCache', 1, Len(SimilarityCache)) = SimilarityCache
          /\ SimilarityCache'[Len(SimilarityCache')].id = found'.doc_id
          /\ \A i \in 1..Len(SimilarityCache) : SimilarityCache[i].id # found'.doc_id]_vars

\* C18: a search returns at most top_k stored pairs, each with similarity at
\* or above the threshold, by descending similarity, and of two pairs of
\* equal similarity the one inserted earlier comes first.
C18_RankedResults ==
    found.searched =>
        LET results == found.results
            position(r) == CHOOSE i \in 1..Len(qa_pairs) : qa_pairs[i].id = r.id
        IN /\ Len(results) <= found.top_k
           /\ \A n \in 1..Len(results) :
                 /\ \E i \in 1..Len(qa_pairs) :
                       /\ qa_pairs[i].id = results[n].id
                       /\ qa_pairs[i].question = results[n].question
                       /\ results[n].similarity =
                             CosineSimilarity(Embed(found.question), qa_embeddings[i])
                 /\ results[n].similarity >= found.threshold
           /\ \A n, m \in 1..Len(results) :
                 n < m =>
                    \/ results[n].similarity > results[m].similarity
                    \/ /\ results[n].similarity = results[m].similarity
                       /\ position(results[n]) < position(results[m])

RECURSIVE SumTokens(_, _, _)
SumTokens(messages, from, include_metadata) ==
    IF from > Len(messages) THEN 0
    ELSE EstimateTokens(messages[from], include_metadata)
             + SumTokens(messages, from + 1, include_metadata)

\* C20: get_context returns, oldest first, the longest suffix of the stored
\* messages whose estimated lengths sum to at most max_tokens: no stored
\* message newer than a returned one is left out, and with a budget that
\* fits all stored messages all of them are returned.
C20_LongestSuffix ==
    (ctx.called /\ ctx.at = Len(mm_added)) =>
        LET n == Len(mm_messages)
            k == Len(ctx.context)
            budget == IF ctx.max_tokens = NoTokens THEN max_context_tokens
                      ELSE ctx.max_tokens
        IN /\ k <= n
           /\ \A i \in 1..k :
                 /\ ctx.context[i].role = mm_messages[n - k + i].role
                 /\ ctx.context[i].content = mm_messages[n - k + i].content
           /\ SumTokens(mm_messages, n - k + 1, ctx.include_metadata) <= budget
           /\ k < n => SumTokens(mm_messages, n - k, ctx.include_metadata) > budget
           /\ SumTokens(mm_messages, 1, ctx.include_metadata) <= budget => k = n

\* the newer of two stored messages fits the budget, both together do not
C20_Witness ==
    /\ ctx.called
    /\ ctx.at = Len(mm_added)
    /\ Len(mm_messages) = 2
    /\ ctx.max_tokens = 10
    /\ Len(ctx.context) = 1
    /\ ctx.context[1].content = mm_messages[2].content

\* C21: for every dialect string both constructors settle on a database
\* type: a supported dialect whose package is installed resolves to itself
\* (in lower case) without a warning; an unknown string, or a supported
\* dialect whose package is missing, resolves to sqlite with a warning.
C21_DialectResolution ==
    ext.ctor.called =>
        LET dialect == Lower(ext.ctor.dialect)
            Resolved(made, supported) ==
                IF /\ dialect \in DOMAIN supported
                   /\ (dialect = "sqlite" \/ supported[dialect] \in ext.ctor.installed)
                THEN made.db_type = dialect /\ made.warnings = <<>>
                ELSE made.db_type = "sqlite" /\ made.warnings # <<>>
        IN /\ Resolved(ext.ctor.executor, ExecutorDatabases)
           /\ Resolved(ext.ctor.manager, ManagerDatabases)

\* hive configured, pyhive not installed
C21_Witness ==
    /\ ext.ctor.called
    /\ ext.ctor.dialect = "hive"
    /\ "pyhive" \notin ext.ctor.installed
    /\ ext.ctor.executor.db_type = "sqlite"
    /\ ext.ctor.manager.db_type = "sqlite"
    /\ Len(ext.ctor.executor.warnings) = 2

\* C22: a result returned without validation_passed carries the validation
\* errors of all failed attempts of the request (every error a correction
\* prompt of the request quoted is among them) and the last generated SQL.
C22_AccumulatedErrors ==
    (gq_pc = "returned" /\ ~gq_result.validation_passed) =>
        /\ gq_result.query = gq_loc.previous_query
        /\ \A i \in CorrectionPrompts :
              Range(gq_prompts[i].validation_errors) \subseteq Range(gq_result.validation_errors)

\* C23: when every small-tier and every large-tier attempt failed, the
\* failure generate_query raises to its caller carries the ordered attempt
\* trail: the tier, index and error of each attempt made.
C23_AttemptTrail ==
    gq_pc = "raised" =>
        LET attempts == fb_loc.result.attempts
        IN /\ Len(attempts) = 2 * gq_cfg.max_retries_per_model
           /\ \A i \in 1..Len(attempts) :
                 /\ Contains(ext.gq_exception, attempts[i].model)
                 /\ Contains(ext.gq_exception, attempts[i].error)

\* C24: when the first generation is 'SELECT name, total FROM sales GROUP BY'
\* and the second is a complete query, the one correction prompt issued
\* quotes the error "ends with 'GROUP BY'" and the previous SQL, and the
\* result has validation_passed = true and reports two attempts, one for
\* each generation.
C24_SelfCorrection ==
    (/\ gq_pc = "returned"
     /\ gq_cfg.syntax_check_enabled
     /\ Len(gq_prompts) = 2
     /\ gq_loc.previous_query = "SELECT name, total FROM sales GROUP BY"
     /\ gq_result.query = "SELECT name FROM customers") =>
        /\ gq_prompts[1].kind = "initial"
        /\ gq_prompts[2] = [kind |-> "correction",
                            previous_query |-> "SELECT name, total FROM sales GROUP BY",
                            validation_errors |->
                                <<"Query appears incomplete - ends with 'GROUP BY'">>]
        /\ gq_result.validation_passed
        /\ Len(gq_result.attempts) = 2

\* C25: once the concurrent add_qa_pair calls have returned, every added
\* pair is stored exactly once under an id of its own, the embeddings list
\* is aligned with the pairs list, and the files on disk hold what memory
\* holds.
C25_ConcurrentAdds ==
    (\A t \in Threads : Adder(t).pc = "idle") =>
        /\ Len(qa_pairs) = Len(ext.added)
        /\ \A i, j \in 1..Len(qa_pairs) : qa_pairs[i].id = qa_pairs[j].id => i = j
        /\ \A n \in 1..Len(ext.added) :
              Cardinality({i \in 1..Len(qa_pairs) :
                              /\ qa_pairs[i].id = ext.added[n].doc_id
                              /\ qa_pairs[i].question = ext.added[n].question}) = 1
        /\ Len(qa_embeddings) = Len(qa_pairs)
        /\ \A i \in 1..Len(qa_pairs) : qa_embeddings[i] = Embed(qa_pairs[i].question)
        /\ vs_disk = [qa_pairs |-> qa_pairs, qa_embeddings |-> qa_embeddings]

\* C26: after a request was aborted while an external call was in flight,
\* the memory of its session holds no message of that request.
C26_AbortLeavesNoMessage ==
    \A t \in Threads :
        pq[t].pc = "aborted" =>
            \A i \in 1..Len(mem_log[pq[t].session_id]) :
                mem_log[pq[t].session_id][i].req # pq[t].req

\* C27: every external call of a request, the model call and the query
\* execution alike, returns within its configured timeout.
C27_CallsBounded ==
    ext.timed.called => ext.timed.elapsed <= ext.timed.timeout

\* C28: a session that has a memory keeps it: from one step to the next
\* get_session returns the same memory for its id, and the messages of that
\* memory are the earlier ones, possibly without the oldest ones evicted from
\* a full memory, followed by the ones added.
C28_SessionsPersist ==
    [][\A s \in SessionIds :
          get_session(s) # 0 =>
              /\ get_session(s)' = get_session(s)
              /\ LET old == mem_heap[get_session(s)]
                     new == mem_heap'[get_session(s)']
                 IN \E k \in 0..Len(old) :
                       /\ k > 0 => Len(new) = MaxContextMessages
                       /\ Len(new) >= Len(old) - k
                       /\ SubSeq(new, 1, Len(old) - k) = SubSeq(old, k + 1, Len(old))]_vars

\* C29: validate never raises; a relevance or answerability check whose
\* model call raised, or whose response could not be parsed, counts as valid;
\* and a rejection comes from the length check or from a check whose
\* response was parsed.
C29_ChecksFailOpen ==
    ext.val.called =>
        LET results == ext.val.results
            relevance == results.checks.relevance
            answerability == results.checks.answerability
        IN /\ ~results.raised
           /\ (relevance.ran /\ CheckError(ext.val.relevance_response) # None)
                 => relevance.valid
           /\ (answerability.ran /\ CheckError(ext.val.answerability_response) # None)
                 => answerability.valid
           /\ ~results.valid =>
                 \/ ~results.checks.length.valid
                 \/ /\ relevance.ran /\ ~relevance.valid
                    /\ CheckError(ext.val.relevance_response) = None
                 \/ /\ answerability.ran /\ ~answerability.valid
                    /\ CheckError(ext.val.answerability_response) = None

\* the model call of the relevance check raised, the response of the
\* answerability check was no JSON, and the question passed
C29_Witness ==
    /\ ext.val.called
    /\ ext.val.relevance_response.raised # None
    /\ ext.val.answerability_response.raised = None
    /\ ParseError(ext.val.answerability_response) # None
    /\ ext.val.results.checks.relevance.ran
    /\ ext.val.results.checks.answerability.ran
    /\ ext.val.results.valid

\* C30: for a successful execution without user feedback the score of a
\* query of the small tier on its first attempt is above 0.9 and inside
\* [0, 1], and the score of the same result marked as produced by the large
\* tier is strictly lower.
C30_TierConfidence ==
    LET small == ext.tier.small
        large == ext.tier.large
    IN (/\ small.called /\ small.execution_success /\ small.user_feedback = None
        /\ small.query_result.attempts = 1) =>
           /\ small.score * 10 > 9 * ConfScale
           /\ 0 <= small.score /\ small.score <= ConfScale
           /\ (/\ large.called /\ large.execution_success /\ large.user_feedback = None
               /\ large.query_result = [small.query_result EXCEPT !.model_used = "large"])
                 => large.score < small.score

\* C31: a store constructed over the persist directory after completed adds
\* holds the pairs and the embeddings the store before it held, in the same
\* order, and no id returned after a restart equals an id returned before it.
C31_DurableAcrossRestarts ==
    /\ [](\A i, j \in 1..Len(ext.issued) :
             ext.issued[i].run < ext.issued[j].run
                 => ext.issued[i].doc_id # ext.issued[j].doc_id)
    /\ [][ext.run' # ext.run =>
             (qa_pairs' = qa_pairs /\ qa_embeddings' = qa_embeddings)]_vars

CallsOfTier(tier) == {i \in 1..Len(provider_calls) : provider_calls[i] = tier}

\* C32: one run of generate_with_fallback makes at most R small-tier and at
\* most R large-tier calls, none after a successful one; its attempts log has
\* one entry per call, in call order, with the tier, the index of the call
\* within its tier, the success flag and the error of a failure; only the last
\* entry of a successful run is a success.
C32_AttemptsLog ==
    LET attempts == fb_loc.result.attempts
        R == gq_cfg.max_retries_per_model
    IN /\ Cardinality(CallsOfTier("small")) <= R
       /\ Cardinality(CallsOfTier("large")) <= R
       /\ Len(attempts) = Len(provider_calls)
       /\ \A i \in 1..Len(attempts) :
             /\ attempts[i].model = provider_calls[i]
             /\ attempts[i].attempt =
                   Cardinality({j \in 1..i : provider_calls[j] = provider_calls[i]})
             /\ attempts[i].success => (i = Len(attempts) /\ attempts[i].error = None)
             /\ ~attempts[i].success => attempts[i].error \in ProviderErrors
       /\ fb_loc.result.model_used # None <=>
             (attempts # <<>> /\ attempts[Len(attempts)].success)
       /\ fb_loc.result.model_used # None =>
             fb_loc.result.model_used = attempts[Len(attempts)].model

\* R = 2: two small-tier failures, a large-tier failure, a large-tier success
C32_Witness ==
    /\ gq_pc = "extract"
    /\ gq_cfg.max_retries_per_model = 2
    /\ Len(fb_loc.result.attempts) = 4
    /\ ~fb_loc.result.attempts[3].success
    /\ fb_loc.result.attempts[3].model = "large"
    /\ fb_loc.result.attempts[4].success
    /\ fb_loc.result.attempts[4].attempt = 2

\* C33: in process_question a request reports that the model call failed
\* only after the call was retried, and the attempts reported in the result
\* metadata is the number of model calls the request made.
C33_CombinedCallRetries ==
    \A t \in Threads :
        (Returned(t) /\ pq[t].llm_calls > 0) =>
            /\ pq[t].combined_result.reason = InternalError("timeout")
                  => pq[t].llm_calls > 1
            /\ "query_generation" \in pq[t].result.metadata.keys =>
                  pq[t].result.metadata.query_generation.attempts = pq[t].llm_calls

\* C34: validate runs the length check, then the relevance check, then the
\* answerability check, each enabled check only when no earlier one failed:
\* a question failing the length check causes no model call, answerability
\* is not evaluated after a failed relevance check, and the reason returned
\* is that of the first failing check (none when all checks passed).
C34_ShortCircuit ==
    ext.val.called =>
        LET results == ext.val.results
            length == results.checks.length
            relevance == results.checks.relevance
            answerability == results.checks.answerability
        IN /\ length.ran
           /\ relevance.ran <=> (length.valid /\ ext.val.config.check_relevance)
           /\ answerability.ran <=>
                 /\ length.valid
                 /\ ext.val.config.check_answerability
                 /\ ~(relevance.ran /\ ~relevance.valid)
           /\ results.valid <=>
                 /\ length.valid
                 /\ relevance.ran => relevance.valid
                 /\ answerability.ran => answerability.valid
           /\ results.reason =
                 IF ~length.valid THEN length.reason
                 ELSE IF relevance.ran /\ ~relevance.valid THEN relevance.reason
                 ELSE IF answerability.ran /\ ~answerability.valid
                 THEN answerability.reason
                 ELSE None

\* the relevance check rejects the question: the answerability check, which
\* is enabled and would reject it as well, is not evaluated
C34_Witness ==
    /\ ext.val.called
    /\ ext.val.config.check_answerability
    /\ ext.val.results.checks.relevance.ran
    /\ ~ext.val.results.checks.relevance.valid
    /\ ~_check_answerability(ext.val.answerability_response).valid
    /\ ~ext.val.results.checks.answerability.ran
    /\ ext.val.results.reason = "Question not relevant to data queries: off topic"

\* the words of the rules: the word a text begins with and the word it ends with
FirstWord(s) ==
    LET spaces == {i \in 1..Len(s) : IsSpace(SubSeq(s, i, i))}
    IN IF spaces = {} THEN s
       ELSE SubSeq(s, 1, (CHOOSE i \in spaces : \A j \in spaces : i <= j) - 1)

LastWord(s) ==
    LET spaces == {i \in 1..Len(s) : IsSpace(SubSeq(s, i, i))}
    IN IF spaces = {} THEN s
       ELSE SubSeq(s, (CHOOSE i \in spaces : \A j \in spaces : i >= j) + 1, Len(s))

DmlKeywords == {"SELECT", "INSERT", "UPDATE", "DELETE", "WITH"}

ClauseKeywords == {"SELECT", "FROM", "WHERE", "BY", "JOIN", "ON", "AND", "OR", "AS"}

\* the rules of the syntax check, word by word
WellFormedQuery(query) ==
    LET text == Upper(Strip(query))
    IN /\ text # ""
       /\ FirstWord(text) \in DmlKeywords
       /\ FirstWord(text) = "SELECT" => Contains(text, "FROM")
       /\ CountSub(query, "(") = CountSub(query, ")")
       /\ CountSub(query, "'") % 2 = 0
       /\ CountSub(query, "\"") % 2 = 0
       /\ LastWord(text) \notin ClauseKeywords
       /\ ~EndsWith(text, ",")

\* C35: the syntax validator accepts a query text exactly when it is
\* non-empty, begins with a DML keyword, contains FROM when it is a SELECT,
\* has balanced parentheses and quotes and does not end with a keyword or a
\* comma; with a rejection comes a non-empty list of errors.
C35_SyntaxRules ==
    (ext.syn.called /\ ext.syn.syntax_check_enabled) =>
        /\ ext.syn.is_valid <=> WellFormedQuery(ext.syn.query)
        /\ ~ext.syn.is_valid =>
              (ext.syn.errors # NoneList /\ Len(ext.syn.errors) > 0)

\* C36: when execute_query has returned, it has closed every cursor and
\* every per-call connection it acquired, whether the query succeeded or an
\* exception was caught; the embedded backend keeps no connection.
C36_HandlesReleased ==
    ext.handles.called =>
        /\ ext.handles.cursors = 0
        /\ ext.handles.connections = 0
        /\ qe.db_type = "sqlite" => ~qe.connection

\* C37: a read of a table's metadata is served from the cache, without a
\* fetch from the backend, exactly when the table has a cached entry younger
\* than cache_ttl and no force-refresh was requested since it was cached.
C37_CacheTtl ==
    ext.meta.read.called =>
        /\ ext.meta.read.from_cache <=>
              /\ ext.meta.read.had_entry
              /\ ext.meta.read.age < CacheTtl
              /\ ~ext.meta.read.forced
        /\ ext.meta.read.fetched <=> ~ext.meta.read.from_cache

\* C38: execute_tool of an agent runs the handler of that agent, however
\* many agents have been constructed in the process since.
C38_OwnHandlers ==
    (ext.tools.call.called /\ ext.tools.call.tool_name \in ToolNames) =>
        ext.tools.call.handler_of = ext.tools.call.agent

\* C39: the QueryExecutor and the MetadataManager built from one
\* configuration settle on the same database type, whatever the dialect.
C39_SameBackend ==
    ext.ctor.called => ext.ctor.executor.db_type = ext.ctor.manager.db_type

\* the vector store holds a pair stored under this question text
Stored(question) == \E i \in 1..Len(qa_pairs) : qa_pairs[i].question = question

\* evaluation mode with the similar-question check and its prompt enabled
PromptingOn == cfg.eval_mode /\ cfg.check_similar_questions /\ cfg.prompt_on_similar

\* the similar-question step of a request, without skip_similar_check, for a
\* question text the store holds
ReuseStep(t) ==
    /\ PromptingOn
    /\ pq[t].pc = "similar" /\ pq'[t].pc # "similar"
    /\ ~pq[t].skip_similar_check
    /\ Stored(pq[t].question)

\* a request that returned SIMILAR_QUESTION called neither the model nor the
\* database, and was not made with skip_similar_check
OfferWithoutWork ==
    \A t \in Threads :
        (Returned(t) /\ pq[t].result.response_type = SIMILAR_QUESTION) =>
            /\ pq[t].llm_calls = 0
            /\ exec_log[t] = <<>>
            /\ ~pq[t].skip_similar_check

====
